---------------------------- MODULE Spec2Model ----------------------------
(***************************************************************************)
(* A model of the OpenAQ FastAPI service (bitner/openaq-fastapi).          *)
(*                                                                         *)
(* The program has several independent parts; each part is modelled by its *)
(* own group of variables, its own initial condition and its own actions,  *)
(* and is checked under its own specification:                             *)
(*                                                                         *)
(*   SpecPaging  Paging (routers/base.py): field bounds and check_offset   *)
(*   SpecWhere   Measurements.where (routers/measurements.py)              *)
(*   SpecMeas    measurements_get: summary, clamping, time-window loop     *)
(*   SpecCache   DB.fetch behind aiocache's cached(900) decorator          *)
(*   SpecLoad    load_fetch_file / load_fetch_day (ingest/fetch.py)        *)
(*   SpecIngest  the SQL script processquery (ingest.py)                   *)
(*                                                                         *)
(* While one part runs, the variables of the other parts keep their idle   *)
(* value.  Spec is the union of the parts.                                 *)
(***************************************************************************)
EXTENDS Integers, Sequences, FiniteSets, TLC

VARIABLES
    pgPc,       \* Paging: "idle", "request" (parameters received), "done"
    pgReq,      \* Paging: the query parameters the client sent
    pgRes,      \* Paging: the outcome of constructing Paging(**params)
    whPc,       \* Measurements.where: "idle", "query" (model built), "done"
    whM,        \* Measurements.where: the fields of the Measurements model
    whGeo,      \* Measurements.where: what self.where_geo() returns
    whRes,      \* Measurements.where: the clauses of the returned string
    msPc,       \* measurements_get: "idle", "summary", "row", "loop", "done", "error"
    msM,        \* measurements_get: limit, sort, date_from, date_to of the request
    msRow,      \* measurements_get: rows[0], the row of the summary query
    msCount,    \* measurements_get: count (the total of the summary row)
    msFrom,     \* measurements_get: date_from after clamping
    msTo,       \* measurements_get: date_to after clamping
    msStart,    \* measurements_get: rangestart
    msEnd,      \* measurements_get: rangeend
    msRc,       \* measurements_get: rc, the rows counted so far
    msResults,  \* measurements_get: len(results)
    msWindows,  \* measurements_get: the windows queried so far, in order
    msOut,      \* measurements_get: the response
    caPc,       \* DB.fetch: "idle" or "serving"
    caReq,      \* DB.fetch: the calls of fetch, one record per call
    caCache,    \* DB.fetch: the SimpleMemoryCache, key -> value and deadline
    caNow,      \* DB.fetch: the clock of the event loop, in seconds
    caAdvances, \* DB.fetch: how often the clock was advanced
    ldPc,       \* load_fetch_*: the statement the command is about to run
    ldCmd,      \* load_fetch_*: "file" (load_fetch_file) or "day" (load_fetch_day)
    ldKeys,     \* load_fetch_*: the number of keys to copy
    ldNext,     \* load_fetch_*: the index of the next key to copy
    ldLog,      \* load_fetch_*: the calls made on the connection, in order
    ldTxn,      \* load_fetch_*: the connection's transaction: "none", "open", "aborted"
    ldDates,    \* load_fetch_*: (mindate, maxdate) read back by process_data
    ldPending,  \* load_fetch_*: the effects of the open transaction
    ldDurable,  \* load_fetch_*: the effects that were committed
    ldErr,      \* load_fetch_*: whether the command ended with an exception
    ldFailed,   \* load_fetch_*: the keys for which copy_data printed
                \*               "full copy failed"
    igPc,       \* processquery: "idle", "staged" (rows copied), "done"
    igStaged,   \* processquery: the rows of tempfetchdata (the row is its tfdid)
    igDb,       \* processquery: sensor_nodes, sensor_systems, measurands,
                \*               sensors and measurements
    igRejects,  \* processquery: the rows of rejects
    igAssigned, \* processquery: tempfetchdata.sensors_id after the last run
    igRun,      \* processquery: how many runs have completed
    igFirst,    \* processquery: the tables as the first run left them
    igNodeOf,   \* processquery: tempfetchdata_nodes.sensor_nodes_id after
                \*               "Create new nodes" of the last run
    ruPc,       \* rollup choice of measurements_get: "idle", "request", "done"
    ruM,        \* rollup choice: the fields of the Measurements model it reads
    ruRes,       \* rollup choice: rolluptype, joins and where of the summary query
    dyPc,       \* load_fetch_day (ingest.py): "idle", "copied", "filtered", "done", "error"
    dyStaged,   \* load_fetch_day (ingest.py): tempfetchdata after the copies
    dyKept,     \* load_fetch_day (ingest.py): tempfetchdata after the two DELETEs
    dyDb,       \* load_fetch_day (ingest.py): the tables after processquery
    dyRejects,  \* load_fetch_day (ingest.py): the rows of rejects
    dyAssigned, \* load_fetch_day (ingest.py): tempfetchdata.sensors_id at the end
    siPc,       \* StringIteratorIO: "idle", "new" (constructed), "read", "ended"
                \*                   (a read of a size other than 0 returned "")
    siStrings,  \* StringIteratorIO: the strings the iterator was made of
    siIter,     \* StringIteratorIO: the strings self._iter has yet to yield
    siBuff,     \* StringIteratorIO: self._buff
    siOut,      \* StringIteratorIO: the results of the reads so far, joined
    siLast,     \* StringIteratorIO: the size and the result of the last read
    pjPc,       \* parse_json: "idle", "call", "done"
    pjRecord,   \* parse_json: the record j it is given
    pjOut       \* parse_json: the line it returned or the exception it raised

pagingVars == <<pgPc, pgReq, pgRes>>
whereVars == <<whPc, whM, whGeo, whRes>>
measVars == <<msPc, msM, msRow, msCount, msFrom, msTo, msStart, msEnd, msRc,
              msResults, msWindows, msOut>>
cacheVars == <<caPc, caReq, caCache, caNow, caAdvances>>
loadVars == <<ldPc, ldCmd, ldKeys, ldNext, ldLog, ldTxn, ldDates, ldPending,
              ldDurable, ldErr, ldFailed>>
ingestVars == <<igPc, igStaged, igDb, igRejects, igAssigned, igRun, igFirst,
                igNodeOf>>
rollupVars == <<ruPc, ruM, ruRes>>
dayVars == <<dyPc, dyStaged, dyKept, dyDb, dyRejects, dyAssigned>>
sioVars == <<siPc, siStrings, siIter, siBuff, siOut, siLast>>
parseVars == <<pjPc, pjRecord, pjOut>>

\* The variables of the other parts, which a part leaves alone.
pagingRest == <<whereVars, measVars, cacheVars, loadVars, ingestVars,
    rollupVars,
    dayVars,
    sioVars,
    parseVars>>
whereRest == <<pagingVars, measVars, cacheVars, loadVars, ingestVars,
    rollupVars,
    dayVars,
    sioVars,
    parseVars>>
measRest == <<pagingVars, whereVars, cacheVars, loadVars, ingestVars,
    rollupVars,
    dayVars,
    sioVars,
    parseVars>>
cacheRest == <<pagingVars, whereVars, measVars, loadVars, ingestVars,
    rollupVars,
    dayVars,
    sioVars,
    parseVars>>
loadRest == <<pagingVars, whereVars, measVars, cacheVars, ingestVars,
    rollupVars,
    dayVars,
    sioVars,
    parseVars>>
ingestRest == <<pagingVars, whereVars, measVars, cacheVars, loadVars,
    rollupVars,
    dayVars,
    sioVars,
    parseVars>>
rollupRest == <<pagingVars, whereVars, measVars, cacheVars, loadVars, ingestVars,
    dayVars,
    sioVars,
    parseVars>>
dayRest == <<pagingVars, whereVars, measVars, cacheVars, loadVars, ingestVars, rollupVars,
    sioVars,
    parseVars>>
sioRest == <<pagingVars, whereVars, measVars, cacheVars, loadVars, ingestVars,
    rollupVars, dayVars,
    parseVars>>
parseRest == <<pagingVars, whereVars, measVars, cacheVars, loadVars, ingestVars,
    rollupVars, dayVars, sioVars>>

vars == <<pgPc, pgReq, pgRes, whPc, whM, whGeo, whRes,
          msPc, msM, msRow, msCount, msFrom, msTo, msStart, msEnd, msRc,
          msResults, msWindows, msOut,
          caPc, caReq, caCache, caNow, caAdvances,
          ldPc, ldCmd, ldKeys, ldNext, ldLog, ldTxn, ldDates, ldPending,
          ldDurable, ldErr, ldFailed,
          igPc, igStaged, igDb, igRejects, igAssigned, igRun, igFirst, igNodeOf,
          ruPc, ruM, ruRes,
          dyPc, dyStaged, dyKept, dyDb, dyRejects, dyAssigned,
          siPc, siStrings, siIter, siBuff, siOut, siLast,
          pjPc, pjRecord, pjOut>>

\* The value of a variable whose part of the program is not running, of an
\* absent optional (Python None) and of an SQL NULL.
None == "None"

\* An Optional[...] field of a model: NoneV is Python's None, Some(v) a value.
NoneV == <<>>
Some(v) == <<v>>
Opt(S) == {NoneV} \cup {Some(v) : v \in S}

Min(a, b) == IF a <= b THEN a ELSE b
Max(a, b) == IF a >= b THEN a ELSE b

(***************************************************************************)
(* Paging (routers/base.py)                                                *)
(*                                                                         *)
(*   class Paging(BaseModel):                                              *)
(*       limit: int = Query(100, gt=0, le=10000)                           *)
(*       page: int = Query(1, gt=0, le=1000)                               *)
(*       offset: int = Query(0, ge=0, le=10000)                            *)
(*       @validator("offset", check_fields=False)                          *)
(*       def check_offset(cls, v, values, **kwargs): ...                   *)
(***************************************************************************)

\* le= of limit, le= of page, le= of offset, and the literal of check_offset.
MaxLimit == 10000
MaxPage == 1000
MaxOffset == 10000
MaxOffsetPlusLimit == 10000

\* How far around each boundary of the field ranges the requests are drawn.
Near == 2

LimitInputs ==
    (0 .. Near) \cup {10, 100, 2500, 5000} \cup ((MaxLimit - Near) .. (MaxLimit + 1))
PageInputs ==
    (0 .. (Near + 2)) \cup {10, 100} \cup ((MaxPage - Near) .. (MaxPage + 1))
OffsetInputs ==
    ((0 - 1) .. 1) \cup (MaxOffset .. (MaxOffset + 1))

\* The constraints of the three fields (gt/ge/le of Query).
LimitFieldOk(limit) == limit > 0 /\ limit <= MaxLimit
PageFieldOk(page) == page > 0 /\ page <= MaxPage
OffsetFieldOk(offset) == offset >= 0 /\ offset <= MaxOffset

\* Mutant of the offset: the pages are counted from 0.
ComputedOffsetFromPageZero(limit, page) == limit * page

\* offset = values["limit"] * (values["page"] - 1)
ComputedOffset(limit, page) == limit * (page - 1)

\* Mutants of the comparison of check_offset.
OffsetTooLargeStrict(limit, offset) == offset + limit >= MaxOffsetPlusLimit
OffsetTooLargeNoLimit(limit, offset) == offset > MaxOffsetPlusLimit

\* if offset + values["limit"] > 10000: invalid(...)
OffsetTooLarge(limit, offset) == offset + limit > MaxOffsetPlusLimit

\* invalid(loc, msg): raise HTTPException(status_code=422, detail=[{"loc": ["path", loc], ...}])
invalid(loc) == [status |-> 422, loc |-> <<"path", loc>>, raised |-> "HTTPException"]

\* check_offset(cls, v, values): v, the offset the client sent, is not read.
\* pydantic leaves a field that failed its own validation out of `values`, so
\* values["limit"] or values["page"] raises KeyError for such a request; the
\* HTTPException of invalid() is no ValueError and leaves the model's
\* construction as it is.
check_offset(v, limitOk, pageOk, limit, page) ==
    IF ~limitOk \/ ~pageOk
    THEN [status |-> 500, loc |-> <<>>, raised |-> "KeyError"]
    ELSE IF OffsetTooLarge(limit, ComputedOffset(limit, page))
         THEN invalid("limit, offset")
         ELSE [status |-> 200, loc |-> <<>>, raised |-> "",
               offset |-> ComputedOffset(limit, page)]

\* Paging(limit=..., page=..., offset=...): the fields are validated in the
\* order of their declaration; the validator of offset runs only when offset
\* passed its own constraints; field errors are collected and end as a 422
\* (ValidationError) naming the fields.
PagingNew(req) ==
    LET limitOk == LimitFieldOk(req.limit)
        pageOk == PageFieldOk(req.page)
        offsetOk == OffsetFieldOk(req.offset)
        chk == check_offset(req.offset, limitOk, pageOk, req.limit, req.page)
        fieldErrors == (IF limitOk THEN {} ELSE {"limit"})
                       \cup (IF pageOk THEN {} ELSE {"page"})
                       \cup (IF offsetOk THEN {} ELSE {"offset"})
    IN  IF offsetOk /\ chk.status # 200
        THEN [status |-> chk.status, loc |-> chk.loc, raised |-> chk.raised,
              fields |-> {}, limit |-> None, page |-> None, offset |-> None]
        ELSE IF fieldErrors # {}
        THEN [status |-> 422, loc |-> <<"query">>, raised |-> "ValidationError",
              fields |-> fieldErrors, limit |-> None, page |-> None, offset |-> None]
        ELSE [status |-> 200, loc |-> <<>>, raised |-> "", fields |-> {},
              limit |-> req.limit, page |-> req.page, offset |-> chk.offset]

\* The summary row whose aggregates are all NULL.
NullRow == [sum |-> NoneV, first |-> NoneV, last |-> NoneV]

\* The response of measurements_get before the handler has returned one.
NoResponse == [found |-> 0, results |-> 0, empty |-> FALSE]

PagingIdle == pgPc = "idle" /\ pgReq = None /\ pgRes = None
WhereIdle == whPc = "idle" /\ whM = None /\ whGeo = None /\ whRes = None
MeasIdle ==
    /\ msPc = "idle" /\ msM = None /\ msRow = NullRow
    /\ msCount = 0 /\ msFrom = 0 /\ msTo = 0
    /\ msStart = 0 /\ msEnd = 0 /\ msRc = 0 /\ msResults = 0
    /\ msWindows = <<>> /\ msOut = NoResponse
CacheIdle ==
    /\ caPc = "idle" /\ caReq = None /\ caCache = None /\ caNow = 0
    /\ caAdvances = 0
LoadIdle ==
    /\ ldPc = "idle" /\ ldCmd = None /\ ldKeys = 0 /\ ldNext = 0
    /\ ldLog = <<>> /\ ldTxn = "none" /\ ldDates = None /\ ldPending = {}
    /\ ldDurable = {} /\ ldErr = FALSE /\ ldFailed = {}
IngestIdle ==
    /\ igPc = "idle" /\ igStaged = {} /\ igDb = None /\ igRejects = {}
    /\ igAssigned = None /\ igRun = 0 /\ igFirst = None /\ igNodeOf = None
RollupIdle ==
    ruPc = "idle" /\ ruM = None /\ ruRes = None
DayIdle ==
    /\ dyPc = "idle" /\ dyStaged = {} /\ dyKept = {} /\ dyDb = None
    /\ dyRejects = {} /\ dyAssigned = None
SioIdle ==
    /\ siPc = "idle" /\ siStrings = <<>> /\ siIter = <<>> /\ siBuff = <<>>
    /\ siOut = <<>> /\ siLast = None
ParseIdle ==
    /\ pjPc = "idle" /\ pjRecord = <<>> /\ pjOut = None

\* Every part but the named one is idle.
IdleBut(part) ==
    /\ part = "paging" \/ PagingIdle
    /\ part = "where" \/ WhereIdle
    /\ part = "meas" \/ MeasIdle
    /\ part = "cache" \/ CacheIdle
    /\ part = "load" \/ LoadIdle
    /\ part = "ingest" \/ IngestIdle
    /\ part = "rollup" \/ RollupIdle
    /\ part = "day" \/ DayIdle
    /\ part = "sio" \/ SioIdle
    /\ part = "parse" \/ ParseIdle

PagingInit ==
    /\ pgPc = "request"
    /\ pgReq \in [limit : LimitInputs, page : PageInputs, offset : OffsetInputs]
    /\ pgRes = None
    /\ IdleBut("paging")

\* The dependency builds the Paging model from the query parameters.
PagingValidate ==
    /\ pgPc = "request"
    /\ pgPc' = "done"
    /\ pgRes' = PagingNew(pgReq)
    /\ UNCHANGED pgReq
    /\ UNCHANGED pagingRest

PagingNext == PagingValidate

SpecPaging == PagingInit /\ [][PagingNext]_vars

(***************************************************************************)
(* Claims about Paging                                                     *)
(***************************************************************************)

PagingAccepted == pgPc = "done" /\ pgRes.status = 200
PagingRejectedByCheckOffset ==
    /\ pgPc = "done"
    /\ pgRes.status = 422
    /\ pgRes.loc = <<"path", "limit, offset">>

\* C1 as stated: every request with 1 <= limit <= 10000, page >= 1 and
\* limit * page <= 10000 is accepted by the validation of Paging (read in the
\* claim's favour: of the requests that send no offset outside 0..10000).
C1_AcceptsUpToTotal ==
    (/\ pgPc = "done"
     /\ 1 <= pgReq.limit /\ pgReq.limit <= MaxLimit
     /\ pgReq.page >= 1
     /\ 0 <= pgReq.offset /\ pgReq.offset <= MaxOffset
     /\ pgReq.limit * pgReq.page <= MaxOffsetPlusLimit)
    => PagingAccepted

\* C1 as amended: every request with 1 <= limit <= 10000, 1 <= page <= 1000,
\* a sent offset within 0..10000 and limit * page <= 10000 is accepted (no 422,
\* no error), in particular page = 1 with limit = 10000.
C1_AcceptsUpToTotalWithinFields ==
    (/\ pgPc = "done"
     /\ 1 <= pgReq.limit /\ pgReq.limit <= MaxLimit
     /\ 1 <= pgReq.page /\ pgReq.page <= MaxPage
     /\ 0 <= pgReq.offset /\ pgReq.offset <= MaxOffset
     /\ pgReq.limit * pgReq.page <= MaxOffsetPlusLimit)
    => PagingAccepted

\* C1 witness: the request of the regression URLs, page=1&limit=10000, accepted.
C1_Witness ==
    /\ PagingAccepted
    /\ pgReq.limit = MaxLimit
    /\ pgReq.page = 1

C18_AcceptedPagingIsConsistent ==
    PagingAccepted =>
        /\ pgRes.limit = pgReq.limit
        /\ pgRes.page = pgReq.page
        /\ pgRes.offset = pgRes.limit * (pgRes.page - 1)
        /\ 1 <= pgRes.limit /\ pgRes.limit <= 10000
        /\ 1 <= pgRes.page /\ pgRes.page <= 1000
        /\ pgRes.offset + pgRes.limit <= 10000

\* C18 witness: an accepted request that sent an offset other than the one
\* its page and limit give, on a page after the first.
C18_Witness ==
    /\ PagingAccepted
    /\ pgReq.page > 1
    /\ pgReq.offset # pgRes.offset
    /\ pgRes.offset + pgRes.limit = 10000

(***************************************************************************)
(* Measurements.where (routers/measurements.py)                            *)
(*                                                                         *)
(* The returned string is the clauses joined by " AND " (or " TRUE " when  *)
(* there is none).  The model keeps the set of clauses; their order in the *)
(* string is the order of the fields of the model and plays no part here.  *)
(***************************************************************************)

\* Latitudes and longitudes of the requests, in degrees: 0 is the equator and
\* the prime meridian.
CoordRange == 1
Coords == (0 - CoordRange) .. CoordRange

\* location: Optional[List[Union[int, str]]], by what isinstance(x, int) says
\* of its elements.
LocationValues == {"ints", "strs", "mixed"}

DWithinClause == " st_dwithin(st_makepoint(:lon, :lat)::geography, b.geog, :radius) "

\* Python's truth value of an Optional[float]: None and 0.0 are false.
Truthy(o) == o # NoneV /\ o[1] # 0

\* if self.lon and self.lat:
HasRadiusPoint(m) == Truthy(m.lon) /\ Truthy(m.lat)

\* The clause of one field (f, v) with v is not None, as the if/elif chain of
\* the loop "for f, v in self" picks it; {} for a field of no branch.
FieldClause(f, v) ==
    IF f = "location" /\ v[1] = "ints" THEN {" sensor_nodes_id = ANY(:location) "}
    ELSE IF f = "location" THEN {" site_name = ANY(:location) "}
    ELSE IF f = "parameter" THEN {" measurand = ANY(:measurand) "}
    ELSE IF f = "unit" THEN {" units = ANY(:unit) "}
    ELSE IF f = "isMobile" THEN {" ismobile = :mobile "}
    ELSE IF f \in {"country", "city"} THEN {f \o " = ANY(:" \o f \o ")"}
    ELSE {}

\* The fields of the model that the loop looks at by name.
WhereFields == {"location", "parameter", "unit", "isMobile", "country", "city"}

\* Measurements.where(self); geo is the value of self.where_geo(), a method
\* of the Geo base class (None or a clause); filter(None, wheres) drops None.
MeasurementsWhere(m, geo) ==
    LET wheres ==
            (IF HasRadiusPoint(m) THEN {DWithinClause} ELSE {})
            \cup UNION {IF m[f] # NoneV THEN FieldClause(f, m[f]) ELSE {} : f \in WhereFields}
            \cup (IF geo = NoneV THEN {} ELSE {geo[1]})
    IN  IF Cardinality(wheres) > 0 THEN wheres ELSE {" TRUE "}

\* The where_geo() of the Geo base class (models/queries.py): it gives no
\* clause or a radius clause of its own on the column geog.
WhereGeoValues == Opt({" st_dwithin(st_makepoint(:lon, :lat)::geography, geog, :radius) "})

WhereInit ==
    /\ whPc = "query"
    /\ whM \in [lat : Opt(Coords), lon : Opt(Coords),
                location : Opt(LocationValues), parameter : Opt({"pm25"}),
                unit : Opt({"ppm"}), isMobile : Opt({TRUE, FALSE}),
                country : Opt({"US"}), city : Opt({"Oslo"})]
    /\ whGeo \in WhereGeoValues
    /\ whRes = None
    /\ IdleBut("where")

\* where = m.where()
WhereCall ==
    /\ whPc = "query"
    /\ whPc' = "done"
    /\ whRes' = MeasurementsWhere(whM, whGeo)
    /\ UNCHANGED <<whM, whGeo>>
    /\ UNCHANGED whereRest

WhereNext == WhereCall

SpecWhere == WhereInit /\ [][WhereNext]_vars

(***************************************************************************)
(* Claims about Measurements.where                                         *)
(***************************************************************************)

\* The condition of Geo.where (routers/base.py):
\* if self.lat is not None and self.lon is not None
GeoWhereCondition(m) == m.lat # NoneV /\ m.lon # NoneV

\* C10: Measurements.where includes its st_dwithin radius clause whenever both
\* lat and lon are set, also when one of them is 0, and omits it only when lat
\* or lon is absent (the condition of Geo.where).
C10_RadiusClauseIffLatLonSet ==
    whPc = "done" => (DWithinClause \in whRes <=> GeoWhereCondition(whM))

(***************************************************************************)
(* measurements_get (routers/measurements.py)                              *)
(*                                                                         *)
(* Times are whole ticks, DayTicks ticks to the day, so that an interval   *)
(* can be a part of a day.  The handler first reads one summary row from   *)
(* the rollups (count and the first and last datetime), clamps date_from   *)
(* and date_to with it, and then queries the measurements one window of    *)
(* one day at a time until it has counted limit rows or a window leaves    *)
(* the clamped interval.                                                   *)
(***************************************************************************)

\* Ticks to the day, the last tick of the modelled time line, the largest
\* limit of a request and the largest total of the summary row.
DayTicks == 2
MaxTime == 6
MaxMeasLimit == 2
MaxTotal == 2

Times == 0 .. MaxTime

\* class Sort(str, Enum): asc, desc, ASC, DESC
Sorts == {"asc", "desc", "ASC", "DESC"}

\* Mutant of delta: half a day.
deltaHalfDay == DayTicks \div 2

\* delta = timedelta(days=1)
delta == DayTicks

\* date_from = range_start if date_from is None else max(date_from, range_start)
ClampFrom(mFrom, rangeStart) ==
    IF mFrom = NoneV THEN rangeStart ELSE Max(mFrom[1], rangeStart)

\* date_to = range_end if date_to is None
\*           else min(date_to, range_end, datetime.utcnow())
ClampTo(mTo, rangeEnd, now) ==
    IF mTo = NoneV THEN rangeEnd ELSE Min(mTo[1], Min(rangeEnd, now))

\* The first window (lines 232-237).
FirstStart(sort, dateFrom, dateTo) ==
    IF sort = "asc" THEN dateFrom ELSE Max(dateTo - delta, dateFrom)
FirstEnd(sort, dateFrom, dateTo) ==
    IF sort = "asc" THEN Min(dateFrom + delta, dateTo) ELSE dateTo

\* The step of both ends of the window (lines 316-321).
StepRange(sort, t) == IF sort = "desc" THEN t - delta ELSE t + delta

\* while rc < m.limit and rangestart >= date_from and rangeend <= date_to
LoopCondition == msRc < msM.limit /\ msStart >= msFrom /\ msEnd <= msTo

MeasInit ==
    /\ msPc = "summary"
    /\ msM \in [limit : 1 .. MaxMeasLimit, sort : Sorts,
                date_from : Opt(Times), date_to : Opt(Times)]
    /\ msRow = NullRow
    /\ msCount = 0 /\ msFrom = 0 /\ msTo = 0 /\ msStart = 0 /\ msEnd = 0
    /\ msRc = 0 /\ msResults = 0 /\ msWindows = <<>> /\ msOut = NoResponse
    /\ IdleBut("meas")

\* WHERE ... st >= :date_from::timestamptz AND st < :date_to::timestamptz:
\* a rollup can match only when both dates are given and date_from < date_to;
\* otherwise the aggregates of the summary row are NULL.
SummaryCanMatch(m) ==
    /\ m.date_from # NoneV
    /\ m.date_to # NoneV
    /\ m.date_from[1] < m.date_to[1]

\* The one row of SELECT sum(value_count), min(first_datetime),
\* max(last_datetime): the aggregates are all NULL when no rollup matches.
SummaryRows(m) ==
    {NullRow} \cup
    IF SummaryCanMatch(m)
    THEN {r \in [sum : {Some(t) : t \in 0 .. MaxTotal},
                  first : {Some(t) : t \in Times},
                  last : {Some(t) : t \in Times}] : r.first[1] <= r.last[1]}
    ELSE {}

\* Mutant of the try block: a NULL date bound is read as the widest range
\* and a NULL sum as 0.
ReadSummaryNullAsZero(row) ==
    Some(<<IF row.sum = NoneV THEN 0 ELSE row.sum[1],
           IF row.first = NoneV THEN 0 ELSE row.first[1],
           IF row.last = NoneV THEN MaxTime ELSE row.last[1]>>)

\* try: total_count = rows[0][0]; range_start = rows[0][1].replace(...);
\* range_end = rows[0][2].replace(...)  except Exception: a NULL date bound
\* has no replace, and the exception is caught.
ReadSummary(row) ==
    IF row.first = NoneV \/ row.last = NoneV
    THEN NoneV
    ELSE Some(<<row.sum[1], row.first[1], row.last[1]>>)

\* OpenAQResult(): the default Meta (found 0) and no results.
OpenAQResultDefault == [found |-> 0, results |-> 0, empty |-> TRUE]

\* rows = await db.fetch(q, params): the summary query returns its row.
MeasSummaryQuery ==
    /\ msPc = "summary"
    /\ msPc' = "row"
    /\ msRow' \in SummaryRows(msM)
    /\ UNCHANGED <<msM, msCount, msFrom, msTo, msStart, msEnd, msRc,
                   msResults, msWindows, msOut>>
    /\ UNCHANGED measRest

\* The try block fails on the summary row: return OpenAQResult().
MeasSummaryEmpty ==
    /\ msPc = "row"
    /\ ReadSummary(msRow) = NoneV
    /\ msPc' = "done"
    /\ msOut' = OpenAQResultDefault
    /\ UNCHANGED <<msM, msRow, msCount, msFrom, msTo, msStart, msEnd, msRc,
                   msResults, msWindows>>
    /\ UNCHANGED measRest

\* The summary row is (total_count, range_start, range_end): lines 191-242,
\* up to the first test of the loop.  With count = 0 the loop is skipped.
MeasSummary ==
    /\ msPc = "row"
    /\ ReadSummary(msRow) # NoneV
    /\ \E now \in Times :
         LET total == ReadSummary(msRow)[1][1]
             rangeStart == ReadSummary(msRow)[1][2]
             rangeEnd == ReadSummary(msRow)[1][3]
         IN  /\ msCount' = total
             /\ msFrom' = ClampFrom(msM.date_from, rangeStart)
             /\ msTo' = ClampTo(msM.date_to, rangeEnd, now)
             /\ IF total > 0
                THEN /\ msStart' = FirstStart(msM.sort, msFrom', msTo')
                     /\ msEnd' = FirstEnd(msM.sort, msFrom', msTo')
                ELSE UNCHANGED <<msStart, msEnd>>
    /\ msPc' = "loop"
    /\ UNCHANGED <<msM, msRow, msRc, msResults, msWindows, msOut>>
    /\ UNCHANGED measRest

\* One pass of the loop body: the window query returns n rows, at most
\* :limit of them (LIMIT :limit); rc and results grow by n, the window steps.
MeasWindow ==
    /\ msPc = "loop"
    /\ msCount > 0
    /\ LoopCondition
    /\ \E n \in 0 .. msM.limit :
         /\ msRc' = msRc + n
         /\ msResults' = msResults + n
    /\ msWindows' = Append(msWindows, <<msStart, msEnd>>)
    /\ msStart' = StepRange(msM.sort, msStart)
    /\ msEnd' = StepRange(msM.sort, msEnd)
    /\ UNCHANGED <<msPc, msM, msRow, msCount, msFrom, msTo, msOut>>
    /\ UNCHANGED measRest

\* db.fetch raises inside the loop (the 422 of a database error, or any
\* other exception): the handler ends without a result.
MeasWindowRaises ==
    /\ msPc = "loop"
    /\ msCount > 0
    /\ LoopCondition
    /\ msPc' = "error"
    /\ msWindows' = Append(msWindows, <<msStart, msEnd>>)
    /\ UNCHANGED <<msM, msRow, msCount, msFrom, msTo, msStart, msEnd, msRc,
                   msResults, msOut>>
    /\ UNCHANGED measRest

\* The loop is left (or was skipped): Meta(found=count), OpenAQResult(results).
MeasReturn ==
    /\ msPc = "loop"
    /\ msCount = 0 \/ ~LoopCondition
    /\ msPc' = "done"
    /\ msOut' = [found |-> msCount, results |-> msResults, empty |-> FALSE]
    /\ UNCHANGED <<msM, msRow, msCount, msFrom, msTo, msStart, msEnd, msRc,
                   msResults, msWindows>>
    /\ UNCHANGED measRest

MeasNext ==
    \/ MeasSummaryQuery
    \/ MeasSummaryEmpty
    \/ MeasSummary
    \/ MeasWindow
    \/ MeasWindowRaises
    \/ MeasReturn

SpecMeas == MeasInit /\ [][MeasNext]_vars

\* The handler is one coroutine: once called it runs on whenever the event
\* loop resumes it, so a step that is possible is eventually taken.
SpecMeasFair == SpecMeas /\ WF_vars(MeasNext)

(***************************************************************************)
(* Claims about measurements_get                                           *)
(***************************************************************************)

MeasEnded == msPc \in {"done", "error"}

\* ceil(a / d) for an integer a of either sign and d > 0.
CeilDiv(a, d) == 0 - ((0 - a) \div d)

\* ceil((date_to - date_from) / 1 day) + 1, of the clamped dates.
WindowBound == CeilDiv(msTo - msFrom, DayTicks) + 1

\* C3: the number of measurement rows in the response is at most the
\* requested limit, whatever the windows returned.
C3_ResultsAtMostLimit ==
    (msPc = "done" /\ ~msOut.empty) => msOut.results <= msM.limit

\* C9 as stated: the window loop terminates for every limit, sort and clamped
\* date_from and date_to and every sequence of row counts, and runs at most
\* ceil((date_to - date_from) / 1 day) + 1 window queries (none at all where
\* that number is negative).
C9_TerminatesWithinCeilPlusOne ==
    /\ <>MeasEnded
    /\ [](Len(msWindows) <= Max(0, WindowBound))

\* C9 as amended: the window loop terminates in every case, and runs at most
\* max(1, ceil((date_to - date_from) / 1 day) + 1) window queries: when
\* date_from is a day or more after date_to it still runs one query.
C9_TerminatesWithinBound ==
    /\ <>MeasEnded
    /\ [](Len(msWindows) <= Max(1, WindowBound))

\* C9 witness: the loop has ended after windows that all returned no rows,
\* with date_from after date_to.
C9_Witness ==
    /\ msPc = "done"
    /\ Len(msWindows) > 0
    /\ msRc = 0
    /\ msFrom > msTo

\* A second case of C9: a run over the whole time line, one query per day.
C9_WitnessLongRun ==
    /\ msPc = "done"
    /\ Len(msWindows) = MaxTime \div DayTicks
    /\ msRc = 0

\* The summary query has returned the row whose aggregates are all NULL.
NullSummary == msPc \in {"row", "loop", "done", "error"} /\ msRow = NullRow

\* C16: when the summary row holds no usable aggregate (no rollup matched:
\* the count and both date bounds are NULL), no windowed query is run, no
\* error is raised, and the response is the empty OpenAQResult: found 0 and
\* no results.
C16_NullSummaryGivesEmptyResult ==
    NullSummary =>
        /\ msPc \in {"row", "done"}
        /\ msWindows = <<>>
        /\ msPc = "done" =>
              msOut = [found |-> 0, results |-> 0, empty |-> TRUE]

\* C16 witness: a request with both dates given whose summary matched no
\* rollup has been answered.
C16_Witness ==
    /\ NullSummary
    /\ msPc = "done"
    /\ SummaryCanMatch(msM)
    /\ msOut.found = 0

\* An instant lies in a queried window:
\* datetime >= :rangestart AND datetime <= :rangeend.
InWindow(t, w) == w[1] <= t /\ t <= w[2]

\* C11: when the handler has left the window loop with fewer than limit rows
\* counted, every instant of the clamped interval [date_from, date_to] lies
\* in a window that was queried.
C11_WindowsCoverInterval ==
    (/\ msPc = "done"
     /\ msCount > 0
     /\ msRc < msM.limit)
    => \A t \in msFrom .. msTo :
          \E i \in 1 .. Len(msWindows) : InWindow(t, msWindows[i])

\* C12: no instant lies in two of the windows that one call queried.
C12_WindowsDisjoint ==
    \A i, j \in 1 .. Len(msWindows) :
        i < j => ~\E t \in (0 - DayTicks) .. (MaxTime + DayTicks) :
                     InWindow(t, msWindows[i]) /\ InWindow(t, msWindows[j])

(***************************************************************************)
(* DB.fetch behind aiocache's cached(900, key_builder=dbkey, noself=True,  *)
(* cache=SimpleMemoryCache) (routers/base.py)                              *)
(*                                                                         *)
(* A call of fetch first builds its key and looks it up in the cache; a    *)
(* value that is not None is returned at once.  Otherwise the body runs:   *)
(* it awaits pool.fetch, and when that returns the rows are stored under   *)
(* the key for 900 seconds and returned.  Nothing between the lookup and   *)
(* the await, or between the return of pool.fetch and the store, yields to *)
(* the event loop, so each is one step.  SimpleMemoryCache deletes a key   *)
(* with a timer (call_later(ttl)) that a later set of the key cancels.     *)
(***************************************************************************)

\* @cached(900, **cache_config)
CacheTtl == 900

\* The calls of fetch that are modelled, the microseconds of the datetime
\* among their arguments, and the number of times the clock is advanced.
NCalls == 3
MaxMicro == 1
MaxAdvances == 1

\* The number of calls whose query the database fails.
MaxFailures == 1

Calls == 1 .. NCalls

\* The query texts and the argument dicts of the calls; an argument dict
\* holds a datetime, given by its whole second and its microseconds.
QueryTexts == {"q"}
ArgDicts == [sec : {1}, micro : 0 .. MaxMicro]

\* orjson.dumps(args, option=orjson.OPT_OMIT_MICROSECONDS, default=default):
\* a datetime is written without its microseconds.
ArgsJson(args) == <<"json", args.sec>>

\* Mutant of dbkey: the instance takes part in the key.
dbkeyWithSelf(self, query, args) == <<self, query, ArgsJson(args)>>

\* dbkey(m, f, query, args): hash(f"{query}{j}"); the decorator passes the
\* function and the DB instance as m and f, and neither is read.
dbkey(self, query, args) == <<0, query, ArgsJson(args)>>

CacheKeys == {dbkey(c, q, a) : c \in Calls, q \in QueryTexts, a \in ArgDicts}

\* The rows the database answers to the query of call c: the rows of
\* (query, args) as the data are when that query runs.
DbRows(query, args, c) == <<query, args.sec, args.micro, c>>

\* How far the clock moves in one step: the ttl less a second, or the ttl.
ClockSteps == {CacheTtl - 1, CacheTtl}

\* The exceptions pool.fetch raises in the model: the three classes that
\* fetch catches, and one that it does not.
DbExceptions ==
    {"UndefinedColumnError", "DataError", "CharacterNotInRepertoireError",
     "UndefinedTableError"}

\* Mutant of the except clauses: only UndefinedColumnError is caught.
CaughtOnlyUndefinedColumn == {"UndefinedColumnError"}

\* The classes named by the except clauses of fetch.
CaughtErrors ==
    {"UndefinedColumnError", "DataError", "CharacterNotInRepertoireError"}

\* f"{e}": the message of the exception.
Message(e) == <<"str", e>>

\* No exception has left the call.
NoErr == [raised |-> "", status |-> 0, loc |-> <<>>, msg |-> <<>>]

\* try: r = await self.pool.fetch(...) except ...: invalid("database", f"{e}")
\* What leaves fetch when pool.fetch raises e: the HTTPException of invalid
\* for a caught class, e itself otherwise.
FetchExcept(e) ==
    IF e \in CaughtErrors
    THEN [raised |-> invalid("database").raised,
          status |-> invalid("database").status,
          loc |-> invalid("database").loc,
          msg |-> Message(e)]
    ELSE [raised |-> e, status |-> 0, loc |-> <<>>, msg |-> Message(e)]

NoCall ==
    [pc |-> "new", query |-> "", args |-> NoneV, key |-> NoneV,
     startT |-> 0, endT |-> 0, before |-> {}, during |-> {},
     queried |-> FALSE,
     dbrows |-> NoneV, ret |-> NoneV, exc |-> "", err |-> NoErr]

CacheInit ==
    /\ caPc = "serving"
    /\ caReq = [c \in Calls |-> NoCall]
    /\ caCache = [k \in CacheKeys |-> NoneV]
    /\ caNow = 0
    /\ caAdvances = 0
    /\ IdleBut("cache")

\* The calls of fetch that have returned rows (from the cache or the
\* database), and those that are awaiting pool.fetch.
Returned == {c \in Calls : caReq[c].pc = "done"}
Failed == {c \in Calls : caReq[c].pc = "failed"}
InFlight == {c \in Calls : caReq[c].pc = "querying"}

\* Mutant of the decorator: the key is set although the call raised.
CacheSetOnError(cache, key, rows, now) ==
    [cache EXCEPT ![key] = Some([value |-> rows, deadline |-> now + CacheTtl])]

\* The cache after the decorated call raised: set_in_cache is not reached.
CacheAfterError(cache, key, rows, now) == cache

\* SimpleMemoryCache._set(key, value, ttl): the timer of an earlier set of
\* the key is cancelled and a new one is started.
CacheSet(cache, key, rows, now) ==
    [cache EXCEPT ![key] = Some([value |-> rows, deadline |-> now + CacheTtl])]

\* Mutant of the lookup: a call whose key another call is already fetching
\* does not run the query itself.
CacheMissUnlessInFlight(key) ==
    /\ caCache[key] = NoneV
    /\ \A c \in Calls : ~(caReq[c].pc = "querying" /\ caReq[c].key = Some(key))

\* value = await self.get_from_cache(key); if value is not None: return value
CacheMiss(key) == caCache[key] = NoneV

\* A call of fetch(query, kwargs) from the DB instance of request c starts
\* (the calls are numbered in the order in which they start): the key is
\* built and looked up; on a miss the body runs up to the await of pool.fetch.
FetchStart(c) ==
    /\ caPc = "serving"
    /\ caReq[c].pc = "new"
    /\ \A b \in Calls : b < c => caReq[b].pc # "new"
    /\ \E q \in QueryTexts, a \in ArgDicts :
         LET k == dbkey(c, q, a)
             started == [caReq[c] EXCEPT !.query = q, !.args = Some(a),
                                        !.key = Some(k), !.startT = caNow,
                                        !.before = Returned, !.during = InFlight]
         IN  IF CacheMiss(k)
             THEN caReq' = [caReq EXCEPT ![c] =
                              [started EXCEPT !.pc = "querying", !.queried = TRUE]]
             ELSE caReq' = [caReq EXCEPT ![c] =
                              [started EXCEPT !.pc = "done", !.endT = caNow,
                                              !.ret = IF caCache[k] = NoneV THEN NoneV
                                                      ELSE Some(caCache[k][1].value)]]
    /\ UNCHANGED <<caPc, caCache, caNow, caAdvances>>
    /\ UNCHANGED cacheRest

\* pool.fetch returns the rows: they are stored under the key and returned.
FetchComplete(c) ==
    /\ caPc = "serving"
    /\ caReq[c].pc = "querying"
    /\ LET rows == DbRows(caReq[c].query, caReq[c].args[1], c)
       IN  /\ caCache' = CacheSet(caCache, caReq[c].key[1], rows, caNow)
           /\ caReq' = [caReq EXCEPT ![c].pc = "done", ![c].endT = caNow,
                                     ![c].dbrows = Some(rows), ![c].ret = Some(rows)]
    /\ UNCHANGED <<caPc, caNow, caAdvances>>
    /\ UNCHANGED cacheRest

\* pool.fetch raises e and fetch ends with FetchExcept(e).
FetchFails(c, e) ==
    /\ caPc = "serving"
    /\ caReq[c].pc = "querying"
    /\ Cardinality(Failed) < MaxFailures
    /\ caReq' = [caReq EXCEPT ![c].pc = "failed", ![c].endT = caNow,
                              ![c].exc = e, ![c].err = FetchExcept(e)]
    /\ caCache' = CacheAfterError(caCache, caReq[c].key[1],
                                  DbRows(caReq[c].query, caReq[c].args[1], c),
                                  caNow)
    /\ UNCHANGED <<caPc, caNow, caAdvances>>
    /\ UNCHANGED cacheRest

\* pool.fetch raises UndefinedColumnError, DataError or
\* CharacterNotInRepertoireError: invalid("database", ...) raises the 422.
FetchInvalid(c) ==
    \E e \in DbExceptions : e \in CaughtErrors /\ FetchFails(c, e)

\* pool.fetch raises any other exception: it propagates.
FetchRaises(c) ==
    \E e \in DbExceptions : e \notin CaughtErrors /\ FetchFails(c, e)

\* Time passes; the timers that are due delete their keys.  (While the cache
\* is empty no timer is pending and the passing of time changes nothing.)
ClockAdvance ==
    /\ caPc = "serving"
    /\ caAdvances < MaxAdvances
    /\ \E k \in CacheKeys : caCache[k] # NoneV
    /\ \E d \in ClockSteps :
         /\ caNow' = caNow + d
         /\ caCache' = [k \in CacheKeys |->
                          IF caCache[k] # NoneV /\ caCache[k][1].deadline <= caNow + d
                          THEN NoneV ELSE caCache[k]]
    /\ caAdvances' = caAdvances + 1
    /\ UNCHANGED <<caPc, caReq>>
    /\ UNCHANGED cacheRest

CacheNext ==
    \/ \E c \in Calls : FetchStart(c)
    \/ \E c \in Calls : FetchComplete(c)
    \/ \E c \in Calls : FetchInvalid(c)
    \/ \E c \in Calls : FetchRaises(c)
    \/ ClockAdvance

SpecCache == CacheInit /\ [][CacheNext]_vars

(***************************************************************************)
(* Claims about DB.fetch                                                   *)
(***************************************************************************)

FetchStarted(c) == caReq[c].pc # "new"
FetchReturned(c) == caReq[c].pc = "done"
\* The call ran the query and returned its rows.
QueriedOk(c) == caReq[c].pc = "done" /\ caReq[c].queried
SameQueryAndArgs(a, b) ==
    caReq[a].query = caReq[b].query /\ caReq[a].args = caReq[b].args
\* The same query text and the same arguments but for the microseconds of
\* the datetime: what the key of dbkey keeps of a call.
SameKey(a, b) ==
    /\ caReq[a].query = caReq[b].query
    /\ caReq[a].args # NoneV /\ caReq[b].args # NoneV
    /\ caReq[a].args[1].sec = caReq[b].args[1].sec
\* Call a returned before call b started, less than the ttl before.
FreshBefore(a, b) ==
    /\ a \in caReq[b].before
    /\ caReq[b].startT - caReq[a].endT < CacheTtl

\* C7 as stated: a fetch that starts less than 900 seconds after an earlier
\* successful fetch of the same query and arguments completed does not query
\* the database and returns the rows of an earlier fetch of that query and
\* those arguments; once 900 seconds have passed since every such fetch, the
\* database is queried again.
C7_MemoizedOnQueryAndArgs ==
    \A b \in Calls : FetchStarted(b) =>
        LET earlier == {a \in Calls \ {b} : QueriedOk(a) /\ a \in caReq[b].before
                                            /\ SameQueryAndArgs(a, b)}
        IN  /\ (\E a \in earlier : FreshBefore(a, b)) =>
                  /\ ~caReq[b].queried
                  /\ \E e \in earlier : caReq[b].ret = caReq[e].dbrows
            /\ (earlier # {} /\ \A a \in earlier : ~FreshBefore(a, b)) =>
                  caReq[b].queried

\* C7 as amended: the memo is kept per key of dbkey (the query text and the
\* JSON of the arguments, in which a datetime has lost its microseconds),
\* whatever DB instance calls: a fetch does not query the database exactly
\* when a fetch of the same key that queried the database completed less than
\* 900 seconds before it started, and it then returns the rows of such a
\* fetch; otherwise it queries the database.
C7_MemoizedOnKey ==
    \A b \in Calls : FetchStarted(b) =>
        LET earlier == {a \in Calls \ {b} : QueriedOk(a) /\ a \in caReq[b].before
                                            /\ SameKey(a, b)}
        IN  /\ ~caReq[b].queried <=> \E a \in earlier : FreshBefore(a, b)
            /\ ~caReq[b].queried =>
                  \E e \in earlier : FreshBefore(e, b) /\ caReq[b].ret = caReq[e].dbrows

\* C7 witness: a fetch answered from the cache 899 seconds after the fetch of
\* the same query and arguments, from another DB instance, had completed.
C7_Witness ==
    \E a, b \in Calls :
        /\ a # b
        /\ QueriedOk(a) /\ FetchReturned(b) /\ ~caReq[b].queried
        /\ SameQueryAndArgs(a, b)
        /\ a \in caReq[b].before
        /\ caReq[b].startT - caReq[a].endT = CacheTtl - 1
        /\ caReq[b].ret = caReq[a].dbrows

\* A second case of C7: 900 seconds after, the database is queried again.
C7_WitnessExpired ==
    \E a, b \in Calls :
        /\ QueriedOk(a) /\ QueriedOk(b)
        /\ SameQueryAndArgs(a, b)
        /\ a \in caReq[b].before
        /\ caReq[b].startT - caReq[a].endT = CacheTtl

\* Call b started while call a of the same key was awaiting the database and
\* no fresh value of the key was cached.
OverlapUncached(a, b) ==
    /\ a # b
    /\ FetchStarted(b)
    /\ a \in caReq[b].during
    /\ SameKey(a, b)
    /\ ~\E e \in Calls : QueriedOk(e) /\ SameKey(e, b) /\ FreshBefore(e, b)

\* C8: of two overlapping fetches of the same uncached key each runs the
\* query, each returns the rows of its own query, and once both have returned
\* the key has one entry, holding the rows of one of the fetches of the key.
C8_NoCoalescing ==
    \A a, b \in Calls : OverlapUncached(a, b) =>
        /\ caReq[a].queried /\ caReq[b].queried
        /\ FetchReturned(a) =>
              caReq[a].ret = Some(DbRows(caReq[a].query, caReq[a].args[1], a))
        /\ FetchReturned(b) =>
              caReq[b].ret = Some(DbRows(caReq[b].query, caReq[b].args[1], b))
        /\ (FetchReturned(a) /\ FetchReturned(b) /\ caCache[caReq[b].key[1]] # NoneV) =>
              \E e \in Calls : /\ QueriedOk(e) /\ SameKey(e, b)
                               /\ Some(caCache[caReq[b].key[1]][1].value) = caReq[e].dbrows

\* C8 witness: two overlapping fetches of one key have both returned, each
\* after its own query, and the key is cached.
C8_Witness ==
    \E a, b \in Calls :
        /\ OverlapUncached(a, b)
        /\ QueriedOk(a) /\ QueriedOk(b)
        /\ caReq[a].ret # caReq[b].ret
        /\ caCache[caReq[b].key[1]] # NoneV

\* The calls that had ended in an error when call d started: the calls are
\* numbered in the order of their start, and a call that had started was
\* awaiting the database, had returned or had failed.
FailedBefore(d) ==
    {c \in Calls : c < d /\ caReq[c].pc = "failed" /\ c \notin caReq[d].during}

\* Call d is the first fetch of the query and arguments of call c that
\* started after c had ended in an error.
NextAfterFailed(c, d) ==
    /\ FetchStarted(d)
    /\ c \in FailedBefore(d)
    /\ SameQueryAndArgs(c, d)
    /\ ~\E e \in Calls : /\ e < d /\ FetchStarted(e) /\ c \in FailedBefore(e)
                          /\ SameQueryAndArgs(c, e)

\* Every entry of the cache holds the rows that a fetch of its key read from
\* the database and returned; a fetch that failed has read and returned none.
OnlyReturnedRowsCached ==
    /\ \A k \in CacheKeys : caCache[k] # NoneV =>
          \E e \in Calls : /\ QueriedOk(e) /\ caReq[e].key = Some(k)
                           /\ caReq[e].dbrows = Some(caCache[k][1].value)
    /\ \A c \in Failed : caReq[c].dbrows = NoneV /\ caReq[c].ret = NoneV

\* C14 as stated: a fetch that ends in an error stores nothing in the cache,
\* and the next fetch with the same query and arguments queries the database.
C14_NextAfterFailedQueries ==
    /\ OnlyReturnedRowsCached
    /\ \A c, d \in Calls : NextAfterFailed(c, d) => caReq[d].queried

\* C14 as amended: a fetch that ends in an error stores nothing in the cache;
\* the next fetch with the same query and arguments queries the database
\* unless another fetch of the same key, which queried the database itself,
\* completed less than 900 seconds before it started, and it then returns the
\* rows of such a fetch.
C14_FailedFetchStoresNothing ==
    /\ OnlyReturnedRowsCached
    /\ \A c, d \in Calls : NextAfterFailed(c, d) =>
          LET stored == {e \in Calls : QueriedOk(e) /\ SameKey(e, d)
                                       /\ FreshBefore(e, d)}
          IN  /\ caReq[d].queried <=> stored = {}
              /\ (FetchReturned(d) /\ ~caReq[d].queried) =>
                    \E e \in stored : caReq[d].ret = caReq[e].dbrows

\* C14 witness: a fetch failed, and the next fetch of its query and arguments
\* queried the database and returned rows.
C14_Witness ==
    \E c, d \in Calls :
        /\ NextAfterFailed(c, d)
        /\ QueriedOk(d)
        /\ caCache[caReq[c].key[1]] # NoneV

\* C15: when pool.fetch raises UndefinedColumnError, DataError or
\* CharacterNotInRepertoireError, fetch raises an HTTPException 422 whose
\* detail has loc ["path", "database"] and the message of the exception;
\* every other exception leaves fetch as it is; in both cases fetch returns
\* no rows, and a fetch whose query did not raise ends without an error.
C15_DatabaseErrorsMapped ==
    \A c \in Calls :
        LET e == caReq[c].exc
            r == caReq[c].err
        IN  IF caReq[c].pc = "failed"
            THEN /\ caReq[c].ret = NoneV
                 /\ e \in DbExceptions
                 /\ r.msg = Message(e)
                 /\ IF e \in {"UndefinedColumnError", "DataError",
                               "CharacterNotInRepertoireError"}
                    THEN /\ r.raised = "HTTPException"
                         /\ r.status = 422
                         /\ r.loc = <<"path", "database">>
                    ELSE r.raised = e
            ELSE e = "" /\ r = NoErr

\* C15 witness: the query of a fetch raised DataError and the fetch ended
\* with the 422.
C15_Witness ==
    \E c \in Calls :
        /\ caReq[c].pc = "failed"
        /\ caReq[c].exc = "DataError"
        /\ caReq[c].err.status = 422

(***************************************************************************)
(* load_fetch_file and load_fetch_day (ingest/fetch.py).                   *)
(*                                                                         *)
(* Both commands open one psycopg2 connection in a with block, switch      *)
(* autocommit off and run, on one cursor: create_staging_table, copy_data  *)
(* for each key, filter_data, process_data, update_rollups and             *)
(* connection.commit().  A statement that raises leaves the with block,    *)
(* whose exit rolls the transaction back; copy_data catches what           *)
(* copy_expert raises, which leaves the transaction aborted on the server. *)
(***************************************************************************)
MaxKeys == 3

Commands == {"file", "day"}

\* load_fetch_file of ingest.py: one key, no filter_data and no rollups, and
\* connection.commit() is called a second time at the end of the block.
IngestCommands == {"ingest_file"}

\* The keys a command copies: the one key given to load_fetch_file, the keys
\* that list_objects returned to load_fetch_day (none: no "Contents").
KeyCounts(cmd) == IF cmd = "day" THEN 0 .. MaxKeys ELSE {1}

\* An entry of the log: the function called and, for copy_data, the key.
Step(name, k) == <<name, k>>
Logged(name) == ldLog' = Append(ldLog, Step(name, 0))

\* Mutant of the order: the commit follows process_data directly.
AfterProcessCommit == "commit"

\* The statement that follows process_data in both commands.
AfterProcess == "rollups"

\* Mutant of the exit of "with connection" on an exception: what was pending
\* is made durable.
CommittedOnError(durable, pending) == durable \cup pending

\* The durable effects after "with connection" is left by an exception: the
\* connection rolls back, what was pending is lost.
RolledBack(durable, pending) == durable

LoadInit ==
    /\ ldCmd \in Commands \cup IngestCommands
    /\ ldKeys \in KeyCounts(ldCmd)
    /\ ldPc = IF ldCmd = "day" THEN "list" ELSE "connect"
    /\ ldNext = 0
    /\ ldLog = <<>>
    /\ ldTxn = "none"
    /\ ldDates = NoneV
    /\ ldPending = {}
    /\ ldDurable = {}
    /\ ldErr = FALSE
    /\ ldFailed = {}
    /\ IdleBut("load")

\* load_fetch_day: the keys under the prefix were listed.
LoadListKeys ==
    /\ ldPc = "list"
    /\ ldKeys > 0
    /\ ldPc' = "connect"
    /\ UNCHANGED <<ldCmd, ldKeys, ldNext, ldLog, ldTxn, ldDates, ldPending,
                   ldDurable, ldErr>>
    /\ UNCHANGED ldFailed
    /\ UNCHANGED loadRest

\* load_fetch_day: list_objects raised or its answer has no "Contents"; the
\* exception is caught and the command returns None without connecting.
LoadListFails ==
    /\ ldPc = "list"
    /\ ldPc' = "done"
    /\ UNCHANGED <<ldCmd, ldKeys, ldNext, ldLog, ldTxn, ldDates, ldPending,
                   ldDurable, ldErr>>
    /\ UNCHANGED ldFailed
    /\ UNCHANGED loadRest

\* psycopg2.connect(...) and connection.set_session(autocommit=False).
LoadConnect ==
    /\ ldPc = "connect"
    /\ ldPc' = "staging"
    /\ Logged("connect")
    /\ UNCHANGED <<ldCmd, ldKeys, ldNext, ldTxn, ldDates, ldPending,
                   ldDurable, ldErr>>
    /\ UNCHANGED ldFailed
    /\ UNCHANGED loadRest

\* psycopg2.connect raises: there is no connection to roll back.
LoadConnectRaises ==
    /\ ldPc = "connect"
    /\ ldPc' = "done"
    /\ ldErr' = TRUE
    /\ UNCHANGED <<ldCmd, ldKeys, ldNext, ldLog, ldTxn, ldDates, ldPending,
                   ldDurable>>
    /\ UNCHANGED ldFailed
    /\ UNCHANGED loadRest

\* create_staging_table(cursor): the first statement opens the transaction.
LoadCreateStaging ==
    /\ ldPc = "staging"
    /\ ldPc' = "copy"
    /\ ldNext' = 1
    /\ ldTxn' = "open"
    /\ ldPending' = ldPending \cup {Step("staging", 0)}
    /\ Logged("create_staging_table")
    /\ UNCHANGED <<ldCmd, ldKeys, ldDates, ldDurable, ldErr>>
    /\ UNCHANGED ldFailed
    /\ UNCHANGED loadRest

\* copy_data(cursor, key): the rows of the key are copied into the staging
\* table.
LoadCopy ==
    /\ ldPc = "copy"
    /\ ldNext <= ldKeys
    /\ ldTxn = "open"
    /\ ldNext' = ldNext + 1
    /\ ldPending' = ldPending \cup {Step("rows", ldNext)}
    /\ ldLog' = Append(ldLog, Step("copy_data", ldNext))
    /\ UNCHANGED <<ldPc, ldCmd, ldKeys, ldTxn, ldDates, ldDurable, ldErr>>
    /\ UNCHANGED ldFailed
    /\ UNCHANGED loadRest

\* copy_data(cursor, key): copy_expert raises (a line that does not parse, a
\* row the table refuses, a transaction that is already aborted); copy_data
\* prints the error and returns, and the transaction is aborted.
LoadCopyFails ==
    /\ ldPc = "copy"
    /\ ldNext <= ldKeys
    /\ ldNext' = ldNext + 1
    /\ ldTxn' = "aborted"
    /\ ldLog' = Append(ldLog, Step("copy_data", ldNext))
    /\ ldFailed' = ldFailed \cup {ldNext}
    /\ UNCHANGED <<ldPc, ldCmd, ldKeys, ldDates, ldPending, ldDurable, ldErr>>
    /\ UNCHANGED loadRest

\* filter_data(cursor), after the loop over the keys.
LoadFilter ==
    /\ ldCmd \in Commands
    /\ ldPc = "copy"
    /\ ldNext > ldKeys
    /\ ldTxn = "open"
    /\ ldPc' = "process"
    /\ ldPending' = ldPending \cup {Step("filter", 0)}
    /\ Logged("filter_data")
    /\ UNCHANGED <<ldCmd, ldKeys, ldNext, ldTxn, ldDates, ldDurable, ldErr>>
    /\ UNCHANGED ldFailed
    /\ UNCHANGED loadRest

\* process_data(cursor): runs the ingest script and reads back the row
\* (mindate, maxdate), which is (None, None) when nothing was staged.
LoadProcess ==
    /\ \/ ldPc = "process"
       \/ ldCmd \in IngestCommands /\ ldPc = "copy" /\ ldNext > ldKeys
    /\ ldTxn = "open"
    /\ ldPc' = IF ldCmd \in IngestCommands THEN "commit" ELSE AfterProcess
    /\ ldDates' \in Opt({"dates"})
    /\ ldPending' = ldPending \cup {Step("ingest", 0)}
    /\ Logged("process_data")
    /\ UNCHANGED <<ldCmd, ldKeys, ldNext, ldTxn, ldDurable, ldErr>>
    /\ UNCHANGED ldFailed
    /\ UNCHANGED loadRest

\* update_rollups(cursor, mindate, maxdate): runs update_rollups.sql when
\* both dates are given, and only prints otherwise.
LoadRollups ==
    /\ ldPc = "rollups"
    /\ ldTxn = "open"
    /\ ldPc' = "commit"
    /\ ldPending' = IF ldDates # NoneV
                       THEN ldPending \cup {Step("rollups", 0)}
                       ELSE ldPending
    /\ Logged("update_rollups")
    /\ UNCHANGED <<ldCmd, ldKeys, ldNext, ldTxn, ldDates, ldDurable, ldErr>>
    /\ UNCHANGED ldFailed
    /\ UNCHANGED loadRest

\* connection.commit().
LoadCommit ==
    /\ ldPc = "commit"
    /\ ldTxn = "open"
    /\ ldPc' = IF ldCmd \in IngestCommands THEN "commit2" ELSE "exit"
    /\ ldTxn' = "none"
    /\ ldDurable' = ldDurable \cup ldPending
    /\ ldPending' = {}
    /\ Logged("commit")
    /\ UNCHANGED <<ldCmd, ldKeys, ldNext, ldDates, ldErr>>
    /\ UNCHANGED ldFailed
    /\ UNCHANGED loadRest

\* load_fetch_file of ingest.py: the second connection.commit(), with no
\* transaction open, changes nothing.
LoadCommitAgain ==
    /\ ldPc = "commit2"
    /\ ldPc' = "exit"
    /\ Logged("commit")
    /\ UNCHANGED <<ldCmd, ldKeys, ldNext, ldTxn, ldDates, ldPending,
                   ldDurable, ldErr>>
    /\ UNCHANGED ldFailed
    /\ UNCHANGED loadRest

\* The with blocks are left without an exception: the cursor is closed and
\* the connection commits the transaction that is open, if there is one.
LoadExit ==
    /\ ldPc = "exit"
    /\ ldPc' = "done"
    /\ ldTxn' = "none"
    /\ IF ldTxn = "open"
          THEN /\ ldDurable' = ldDurable \cup ldPending
               /\ Logged("commit")
          ELSE UNCHANGED <<ldDurable, ldLog>>
    /\ ldPending' = {}
    /\ UNCHANGED <<ldCmd, ldKeys, ldNext, ldDates, ldErr>>
    /\ UNCHANGED ldFailed
    /\ UNCHANGED loadRest

\* The statements of the with block that can raise: the SQL statements, the
\* S3 read and the gzip header of copy_data (outside its try), the commit.
\* update_rollups runs SQL only with both dates.  The second commit of
\* ingest.py finds no transaction and sends nothing to the server.
CanRaise ==
    \/ ldPc \in {"staging", "copy", "process", "commit"}
    \/ ldPc = "rollups" /\ ldDates # NoneV

\* A statement raises: the exception leaves both with blocks, the exit of
\* the connection rolls back, and the command ends with the exception.
LoadRaises ==
    /\ CanRaise
    /\ ldPc' = "done"
    /\ ldErr' = TRUE
    /\ ldTxn' = "none"
    /\ ldPending' = {}
    /\ ldDurable' = RolledBack(ldDurable, ldPending)
    /\ Logged("rollback")
    /\ UNCHANGED <<ldCmd, ldKeys, ldNext, ldDates>>
    /\ UNCHANGED ldFailed
    /\ UNCHANGED loadRest

LoadNext ==
    \/ LoadListKeys
    \/ LoadListFails
    \/ LoadConnect
    \/ LoadConnectRaises
    \/ LoadCreateStaging
    \/ LoadCopy
    \/ LoadCopyFails
    \/ LoadFilter
    \/ LoadProcess
    \/ LoadRollups
    \/ LoadCommit
    \/ LoadCommitAgain
    \/ LoadExit
    \/ LoadRaises

SpecLoad == LoadInit /\ [][LoadNext]_vars

(***************************************************************************)
(* Claims about load_fetch_file and load_fetch_day.                        *)
(***************************************************************************)
\* The calls that precede the commit of a command that copies n keys.
StepsBeforeCommit(n) ==
    <<Step("connect", 0), Step("create_staging_table", 0)>>
        \o [k \in 1 .. n |-> Step("copy_data", k)]
        \o <<Step("filter_data", 0), Step("process_data", 0),
             Step("update_rollups", 0)>>

CommitsAt == {i \in 1 .. Len(ldLog) : ldLog[i] = Step("commit", 0)}

IsPrefix(s, t) == Len(s) <= Len(t) /\ SubSeq(t, 1, Len(s)) = s

\* The log without a final rollback.
LogOfSteps ==
    IF ldLog # <<>> /\ ldLog[Len(ldLog)] = Step("rollback", 0)
       THEN SubSeq(ldLog, 1, Len(ldLog) - 1)
       ELSE ldLog

\* C4: in load_fetch_file and load_fetch_day the calls on the connection are
\* always a prefix of: connect (autocommit off), create the staging table,
\* copy each key in turn, filter, process, update rollups, commit.  There is
\* at most one commit, it is the last call, every step before it has been
\* made, nothing is durable before it, and a command that connected and
\* ended without an exception has committed.
C4_StepsInOrderOneCommitLast ==
    ldCmd \in Commands =>
    /\ IsPrefix(LogOfSteps,
                Append(StepsBeforeCommit(ldKeys), Step("commit", 0)))
    /\ Cardinality(CommitsAt) <= 1
    /\ \A i \in CommitsAt :
          /\ i = Len(ldLog)
          /\ SubSeq(ldLog, 1, i - 1) = StepsBeforeCommit(ldKeys)
    /\ (CommitsAt = {}) => ldDurable = {}
    /\ (ldPc = "done" /\ ~ldErr /\ ldLog # <<>>) => CommitsAt # {}

\* C4 witness: load_fetch_day has copied two keys, run every step and
\* committed.
C4_Witness ==
    /\ ldPc = "done"
    /\ ldCmd = "day"
    /\ ldKeys >= 2
    /\ ~ldErr
    /\ CommitsAt = {Len(ldLog)}
    /\ Step("rows", 2) \in ldDurable

\* The command connected and ended with an exception.
RaisedAfterConnect == ldPc = "done" /\ ldErr /\ ldLog # <<>>

\* C13: when a step of load_fetch_file or load_fetch_day (fetch.py, and
\* load_fetch_file of ingest.py) raises after the connection is opened, no
\* commit has been called, the last call on the connection is the rollback,
\* and nothing the load did is durable or pending.
C13_RaiseRollsBackEverything ==
    RaisedAfterConnect =>
        /\ CommitsAt = {}
        /\ ldLog[Len(ldLog)] = Step("rollback", 0)
        /\ ldDurable = {}
        /\ ldPending = {}
        /\ ldTxn = "none"

\* C13 witness: a command ran process_data, which left its effects pending,
\* then a later statement raised.
C13_Witness ==
    /\ RaisedAfterConnect
    /\ \E i \in 1 .. Len(ldLog) : ldLog[i] = Step("process_data", 0)
    /\ \E i \in 1 .. Len(ldLog) : ldLog[i] = Step("copy_data", 1)

\* C22, as stated: a failure of the copy of one key is caught by copy_data
\* and does not stop load_fetch_day: whenever copy_data has printed "full copy
\* failed" for a key and the command is still in its loop over the keys or
\* about to call filter_data, the transaction is one in which the copies of
\* the remaining keys and the statements of filter_data and process_data are
\* executed.
C22_DayGoesOnAfterCopyFailure ==
    (ldCmd = "day" /\ ldFailed # {} /\ ldPc = "copy") => ldTxn = "open"

(***************************************************************************)
(* The ingest script processquery (ingest.py).                             *)
(*                                                                         *)
(* The script is one string of SQL statements that the loaders execute in  *)
(* a session of its own after the rows of the day were copied into         *)
(* tempfetchdata.  The tables are sets of rows; a staged row is its own    *)
(* tfdid, so rows that agree in every column are staged once.  Columns     *)
(* that take no part in the resolution of ids (value, country, city, data, *)
(* source_type, mobile, the averaging period) are the same on every row    *)
(* and left out.  A geometry is a point on the x axis in units of 0.00001  *)
(* degrees.                                                                *)
(***************************************************************************)
MaxStaged == 2
NRuns == 2

\* SQL NULL of an integer id and of a geometry.
NoId == 0
NoGeom == -1

\* st_snaptogrid(geom, .0001) and st_dwithin(sn.geom, t.geom, .0001).
GridSize == 10
Tolerance == 10

Locations == {None, "site"}
Sources == {"src"}
Points == {NoGeom, 0, 4, 6, 1000}
Parameters == {None, "pm25"}
Units == {"ug/m3"}
Datetimes == {1, 2}

\* The rows that COPY can put into tempfetchdata.
StagedRows ==
    [location : Locations, source_name : Sources, coords : Points,
     parameter : Parameters, unit : Units, datetime : Datetimes]

\* The subsets of S with at most k elements.
RECURSIVE SetsUpTo(_, _)
SetsUpTo(S, k) ==
    IF k = 0 THEN {{}}
    ELSE LET P == SetsUpTo(S, k - 1)
         IN  P \cup {s \cup {r} : s \in P, r \in S}

\* The batches: up to MaxStaged distinct rows.
StagedSets == SetsUpTo(StagedRows, MaxStaged) \ {{}}

\* SQL's = on text and on ids: NULL is equal to nothing.
Eq(x, y) == x # None /\ y # None /\ x = y
EqId(x, y) == x # NoId /\ y # NoId /\ x = y
Coalesce(x, y, null) == IF x # null THEN x ELSE y

Abs(x) == IF x < 0 THEN -x ELSE x
SnapToGrid(g) == ((2 * g + GridSize) \div (2 * GridSize)) * GridSize
DWithin(g, h) == g # NoGeom /\ h # NoGeom /\ Abs(g - h) <= Tolerance

\* The aggregates first_notnull and st_centroid(st_collect(...)).
FirstNotNull(S) ==
    IF S \ {None} = {} THEN None ELSE CHOOSE x \in S \ {None} : TRUE
RECURSIVE Sum(_)
Sum(S) == IF S = {} THEN 0 ELSE LET x == CHOOSE x \in S : TRUE
                                IN  x + Sum(S \ {x})
Centroid(G) == Sum(G) \div Cardinality(G)

\* The ids an identity column gives to new rows, after the ids in use.
MaxOf(S) == IF S = {} THEN 0 ELSE CHOOSE m \in S : \A x \in S : x <= m
RECURSIVE SeqOf(_)
SeqOf(S) == IF S = {} THEN <<>> ELSE LET x == CHOOSE x \in S : TRUE
                                     IN  <<x>> \o SeqOf(S \ {x})
Position(x, q) == CHOOSE i \in 1 .. Len(q) : q[i] = x
NewIds(items, used) ==
    LET q == SeqOf(items) IN [x \in items |-> MaxOf(used) + Position(x, q)]

\* The id of the one row of a lookup's matches, NULL without a match.
IdOf(matches) == IF matches = {} THEN NoId ELSE (CHOOSE y \in matches : TRUE).id

\* The "Cleanup fields" updates: POINT(0 0) is no geometry, and the
\* mis-encoded spellings of the unit are the unit.
CleanGeom(c) == IF c = 0 THEN NoGeom ELSE c
CleanUnits(u) == IF u = "ug/m?" THEN "ug/m3" ELSE u

\* tempfetchdata_sensors: one row per group of staged rows that agree in
\* everything but datetime and value; key stands for its tfsid.
SensorKey(r) ==
    [location |-> r.location, source_name |-> r.source_name,
     coords |-> r.coords, parameter |-> r.parameter, unit |-> r.unit]
TempSensors(staged) ==
    {[key |-> k, site_name |-> k.location, source_name |-> k.source_name,
      geom |-> CleanGeom(k.coords), measurand |-> k.parameter,
      units |-> CleanUnits(k.unit),
      tfdids |-> {r \in staged : SensorKey(r) = k}]
        : k \in {SensorKey(r) : r \in staged}}

\* tempfetchdata_nodes: the sensors with a geometry grouped by the grid cell
\* of the geometry, and those without one grouped by site and source name.
TempNodes(ts) ==
    LET wgeom == {t \in ts : t.geom # NoGeom}
        nogeom == {t \in ts : /\ t.geom = NoGeom
                              /\ t.site_name # None
                              /\ t.source_name # None}
    IN  {LET m == {t \in wgeom : SnapToGrid(t.geom) = c}
         IN  [site_name |-> FirstNotNull({t.site_name : t \in m}),
              source_name |-> FirstNotNull({t.source_name : t \in m}),
              geom |-> Centroid({t.geom : t \in m}),
              tfsids |-> {t.key : t \in m}]
            : c \in {SnapToGrid(t.geom) : t \in wgeom}}
        \cup
        {LET m == {t \in nogeom : /\ t.site_name = k[1]
                                  /\ t.source_name = k[2]}
         IN  [site_name |-> k[1], source_name |-> k[2], geom |-> NoGeom,
              tfsids |-> {t.key : t \in m}]
            : k \in {<<t.site_name, t.source_name>> : t \in nogeom}}

\* Mutant of the node lookup: the lookup by site and source name comes first
\* and the lookup by geometry only fills what it left empty.
LookupChoicesNameFirst(nodes, t) ==
    LET near == {n.id : n \in {y \in nodes : DWithin(y.geom, t.geom)}}
        named == {n.id : n \in {y \in nodes :
                                  /\ Eq(t.site_name, y.site_name)
                                  /\ Eq(t.source_name, y.source_name)}}
    IN  IF named # {} THEN named
        ELSE IF near # {} THEN near
        ELSE {NoId}

\* "Lookup Node Ids": a node of the batch takes the id of a sensor node
\* within the tolerance of its geometry, and failing that of one with its
\* site and source name.  UPDATE ... FROM uses one of the matching rows,
\* whichever the join produces first.
LookupChoices(nodes, t) ==
    LET near == {n.id : n \in {y \in nodes : DWithin(y.geom, t.geom)}}
        named == {n.id : n \in {y \in nodes :
                                  /\ Eq(t.site_name, y.site_name)
                                  /\ Eq(t.source_name, y.source_name)}}
    IN  IF near # {} THEN near
        ELSE IF named # {} THEN named
        ELSE {NoId}
NodeLookups(nodes, tn) ==
    {f \in [tn -> {NoId} \cup {n.id : n \in nodes}] :
        \A t \in tn : f[t] \in LookupChoices(nodes, t)}

\* "Update any records that have changed": a sensor node takes the names and
\* the geometry of one of the batch's nodes that were resolved to it and
\* differ from it.
Changed(n, t) ==
    \/ n.geom = NoGeom /\ t.geom # NoGeom
    \/ t.site_name # n.site_name
    \/ t.source_name # n.source_name
Updated(n, t) ==
    [id |-> n.id,
     site_name |-> Coalesce(t.site_name, n.site_name, None),
     source_name |-> Coalesce(t.source_name, n.source_name, None),
     geom |-> Coalesce(t.geom, n.geom, NoGeom)]
NodeUpdateChoices(n, tn, lk) ==
    LET from == {t \in tn : lk[t] = n.id /\ Changed(n, t)}
    IN  IF from = {} THEN {n} ELSE {Updated(n, t) : t \in from}
NodeUpdates(nodes, tn, lk) ==
    LET all == UNION {NodeUpdateChoices(n, tn, lk) : n \in nodes}
    IN  {{f[n] : n \in nodes} :
            f \in {g \in [nodes -> all] :
                     \A n \in nodes : g[n] \in NodeUpdateChoices(n, tn, lk)}}

\* Mutant of the inserts into rejects: nothing is recorded.
RejectedNothing(run, kind, rowsets) == {}

\* INSERT INTO rejects SELECT clock_timestamp(), kind, to_jsonb(tf): one row
\* per rejected item, here with the staged rows the item stands for.
Rejected(run, kind, rowsets) ==
    {[run |-> run, kind |-> kind, rows |-> rs] : rs \in rowsets}

EmptyDb ==
    [nodes |-> {}, systems |-> {}, measurands |-> {}, sensors |-> {},
     measurements |-> {}]

\* "Create new nodes where they don't exist": a row of sensor_nodes for each
\* node of the batch that the lookups gave no id lk, and the id that every
\* node of the batch has afterwards.
ResolveNodes(tn, lk, nodes1) ==
    LET newNodes == {t \in tn : lk[t] = NoId}
        nid == NewIds(newNodes, {n.id : n \in nodes1})
        inserted == {[id |-> nid[t], site_name |-> t.site_name,
                      source_name |-> t.source_name, geom |-> t.geom]
                        : t \in newNodes}
    IN  [inserted |-> inserted,
         nodeOf |-> [t \in tn |->
             IF lk[t] # NoId THEN lk[t]
             ELSE IdOf({n \in inserted : /\ n.site_name = t.site_name
                                         /\ n.geom = t.geom
                                         /\ n.source_name = t.source_name})]]

\* "Get sensor systems" and "create sensor systems that don't exist": the
\* nodes without an id are rejected, a system is created for each node id
\* without one, and the nodes without a system are rejected.
ResolveSystems(systems, tn, nodeOf) ==
    LET rejN == {t \in tn : nodeOf[t] = NoId}
        sysLookup == [t \in tn |->
            IdOf({y \in systems : EqId(nodeOf[t], y.node)})]
        needS == {nodeOf[t] : t \in {u \in tn \ rejN : sysLookup[u] = NoId}}
        sid == NewIds(needS, {y.id : y \in systems})
        inserted == {[id |-> sid[n], node |-> n] : n \in needS}
        sysOf == [t \in tn |->
            IF sysLookup[t] # NoId THEN sysLookup[t]
            ELSE IdOf({y \in inserted : y.node = nodeOf[t]})]
    IN  [inserted |-> inserted, sysOf |-> sysOf, rejN |-> rejN,
         rejS |-> {t \in tn \ rejN : sysOf[t] = NoId}]

\* "add any measurands that don't exist": the measurand id of each sensor of
\* the batch, after the measurands without one were inserted.
MeasLookup(x, ms) ==
    IdOf({y \in ms : Eq(x.measurand, y.measurand) /\ Eq(x.units, y.units)})
ResolveMeasurands(measurands, ts) ==
    LET needM == {<<x.measurand, x.units>> :
                     x \in {y \in ts : MeasLookup(y, measurands) = NoId}}
        mid == NewIds(needM, {y.id : y \in measurands})
        inserted == {[id |-> mid[k], measurand |-> k[1], units |-> k[2]]
                        : k \in needM}
    IN  [inserted |-> inserted,
         measOf |-> [x \in ts |->
             IF MeasLookup(x, measurands) # NoId
                THEN MeasLookup(x, measurands)
                ELSE MeasLookup(x, inserted)]]

\* "merge sensor node / system ids back to sensors table": the node, system
\* and measurand id of each sensor of the batch; kept are the nodes of the
\* batch that were not rejected.
MergeIds(ts, kept, nodeOf, sysOf, measOf) ==
    [x \in ts |->
        LET with == {t \in kept : x.key \in t.tfsids}
            t == CHOOSE t \in with : TRUE
        IN  <<IF with = {} THEN NoId ELSE nodeOf[t],
              IF with = {} THEN NoId ELSE sysOf[t],
              measOf[x]>>]

\* tempfetchdata_sensors_clean, "get sensor id" and "add any sensors that
\* don't exist": the sensors of the batch grouped by their ids, the groups
\* without a system or a measurand rejected, a sensor created for each of
\* the others that has none, and the sensors_id of each staged row.
\* Mutant of "get sensor id": no sensor is found.
SensorLookupNothing(k, ss) == NoId

\* UPDATE tempfetchdata_sensors_clean t SET sensors_id = s.sensors_id FROM
\* sensors s WHERE the system and the measurand are equal.
SensorLookup(k, ss) ==
    IdOf({y \in ss : EqId(k[2], y.system) /\ EqId(k[3], y.measurand)})
ResolveSensors(sensors, staged, ts, ids) ==
    LET clean == {ids[x] : x \in ts}
        tfdids == [k \in clean |->
            UNION {x.tfdids : x \in {y \in ts : ids[y] = k}}]
        rejC == {k \in clean : k[2] = NoId \/ k[3] = NoId}
        needX == {k \in clean \ rejC : SensorLookup(k, sensors) = NoId}
        xid == NewIds(needX, {y.id : y \in sensors})
        inserted == {[id |-> xid[k], system |-> k[2], measurand |-> k[3]]
                        : k \in needX}
    IN  [inserted |-> inserted,
         rejected |-> {tfdids[k] : k \in rejC},
         rowSensor |-> [r \in staged |->
             LET with == {k \in clean \ rejC : r \in tfdids[k]}
                 k == CHOOSE k \in with : TRUE
             IN  IF with = {} THEN NoId
                 ELSE IF SensorLookup(k, sensors) # NoId
                         THEN SensorLookup(k, sensors)
                         ELSE SensorLookup(k, inserted)]]

\* The staged rows that a set of nodes of the batch stands for.
RowsOfNodes(ts, nodes) ==
    {UNION {x.tfdids : x \in {y \in ts : y.key \in t.tfsids}} : t \in nodes}

\* The tables and the rejects at the end of the script, and the sensors_id
\* of the staged rows: the rows without one are rejected, the others are
\* inserted into measurements unless a row with their key exists.
Finish(db, staged, run, ts, nodes, rs, measurands, rx) ==
    [db |-> [nodes |-> nodes,
             systems |-> db.systems \cup rs.inserted,
             measurands |-> measurands,
             sensors |-> db.sensors \cup rx.inserted,
             measurements |-> db.measurements \cup
                 {[sensors_id |-> rx.rowSensor[r], datetime |-> r.datetime]
                     : r \in {q \in staged : rx.rowSensor[q] # NoId}}],
     rejects |->
         Rejected(run, "sensor_nodes", RowsOfNodes(ts, rs.rejN))
         \cup Rejected(run, "sensor_systems", RowsOfNodes(ts, rs.rejS))
         \cup Rejected(run, "sensors", rx.rejected)
         \cup Rejected(run, "sensors",
                       {{r} : r \in {q \in staged : rx.rowSensor[q] = NoId}}),
     assigned |-> rx.rowSensor]

\* The script from "Create new nodes" to its end, given the ids lk that the
\* node lookups chose and the sensor nodes as the update left them.
ProcessQuery(db, staged, run, lk, nodes1) ==
    LET ts == TempSensors(staged)
        tn == TempNodes(ts)
        rn == ResolveNodes(tn, lk, nodes1)
        rs == ResolveSystems(db.systems, tn, rn.nodeOf)
        rm == ResolveMeasurands(db.measurands, ts)
        ids == MergeIds(ts, tn \ (rs.rejN \cup rs.rejS), rn.nodeOf, rs.sysOf,
                        rm.measOf)
    IN  Finish(db, staged, run, ts, nodes1 \cup rn.inserted, rs,
               db.measurands \cup rm.inserted,
               ResolveSensors(db.sensors, staged, ts, ids))

IngestInit ==
    /\ igPc = "staged"
    /\ igStaged \in StagedSets
    /\ igDb = EmptyDb
    /\ igRejects = {}
    /\ igAssigned = [r \in igStaged |-> NoId]
    /\ igRun = 0
    /\ igFirst = EmptyDb
    /\ igNodeOf = <<>>
    /\ IdleBut("ingest")

\* cursor.execute(processquery): the whole script.
IngestProcess ==
    /\ igPc = "staged"
    /\ LET tn == TempNodes(TempSensors(igStaged))
       IN  \E lk \in NodeLookups(igDb.nodes, tn) :
           \E nodes1 \in NodeUpdates(igDb.nodes, tn, lk) :
              LET res == ProcessQuery(igDb, igStaged, igRun + 1, lk, nodes1)
              IN  /\ igDb' = res.db
                  /\ igRejects' = igRejects \cup res.rejects
                  /\ igAssigned' = res.assigned
                  /\ igFirst' = IF igRun = 0 THEN res.db ELSE igFirst
                  /\ igNodeOf' = ResolveNodes(tn, lk, nodes1).nodeOf
    /\ igRun' = igRun + 1
    /\ igPc' = "done"
    /\ UNCHANGED igStaged
    /\ UNCHANGED ingestRest

\* The same rows are copied into tempfetchdata again, in a new session.
IngestRestage ==
    /\ igPc = "done"
    /\ igRun < NRuns
    /\ igPc' = "staged"
    /\ igAssigned' = [r \in igStaged |-> NoId]
    /\ igNodeOf' = <<>>
    /\ UNCHANGED <<igStaged, igDb, igRejects, igRun, igFirst>>
    /\ UNCHANGED ingestRest

IngestNext ==
    \/ IngestProcess
    \/ IngestRestage

SpecIngest == IngestInit /\ [][IngestNext]_vars

(***************************************************************************)
(* Claims about processquery.                                              *)
(***************************************************************************)
\* What the last run did with a staged row.
Measured(r) ==
    /\ igAssigned[r] # NoId
    /\ [sensors_id |-> igAssigned[r], datetime |-> r.datetime]
           \in igDb.measurements
RejectedInRun(r) == \E j \in igRejects : j.run = igRun /\ r \in j.rows

\* C5: when processquery has completed, every row that was in tempfetchdata
\* either has a sensors_id and a row of measurements for that sensors_id and
\* its datetime, or is covered by a row that this run put into rejects.
C5_EveryStagedRowAccounted ==
    igPc = "done" => \A r \in igStaged : Measured(r) \/ RejectedInRun(r)

\* C5 witness: a second run has completed on a batch of which one row went
\* into measurements and another into rejects.
C5_Witness ==
    /\ igPc = "done"
    /\ igRun = 2
    /\ \E r, q \in igStaged : Measured(r) /\ ~Measured(q) /\ RejectedInRun(q)

\* C6: after processquery has run a second time on the same staged rows
\* (rows that all name a parameter), sensor_nodes, sensor_systems, sensors,
\* measurands and measurements are what they were after the first run.
C6_SecondRunChangesNothing ==
    (/\ igPc = "done"
     /\ igRun = 2
     /\ \A r \in igStaged : r.parameter # None) => igDb = igFirst

\* The sensor nodes that lie within 0.0001 of a node group's geometry, and
\* those that carry its site name and source name, neither of them NULL.
NodesNear(nodes, t) ==
    {n \in nodes : /\ t.geom # NoGeom
                   /\ n.geom # NoGeom
                   /\ t.geom - n.geom <= Tolerance
                   /\ n.geom - t.geom <= Tolerance}
NodesNamed(nodes, t) ==
    {n \in nodes : /\ t.site_name # None /\ t.source_name # None
                   /\ n.site_name = t.site_name
                   /\ n.source_name = t.source_name}

\* C21: in every run of processquery each node group of the staged rows is
\* given the id of a sensor node that existed before the run and lies within
\* 0.0001 of the group's geometry when there is one; otherwise the id of an
\* existing sensor node with the group's non-null site_name and source_name
\* when there is one; otherwise the id of a sensor_nodes row that the run
\* inserted.  The run inserts one sensor_nodes row for each group that
\* neither lookup matched, and no other.
C21_NodeLookupThenInsert ==
    [][igRun' = igRun + 1 =>
        LET tn == TempNodes(TempSensors(igStaged))
            old == igDb.nodes
            oldIds == {n.id : n \in old}
            new == {n \in igDb'.nodes : n.id \notin oldIds}
            unmatched == {t \in tn : /\ NodesNear(old, t) = {}
                                     /\ NodesNamed(old, t) = {}}
        IN  /\ DOMAIN igNodeOf' = tn
            /\ \A t \in tn :
                  LET near == NodesNear(old, t)
                      named == NodesNamed(old, t)
                      id == igNodeOf'[t]
                  IN  /\ near # {} => id \in {n.id : n \in near}
                      /\ near = {} /\ named # {} => id \in {n.id : n \in named}
                      /\ near = {} /\ named = {} =>
                            \E n \in new : /\ n.id = id
                                           /\ n.site_name = t.site_name
                                           /\ n.source_name = t.source_name
                                           /\ n.geom = t.geom
            /\ {n.id : n \in new} = {igNodeOf'[t] : t \in unmatched}
            /\ Cardinality(new) = Cardinality(unmatched)]_vars

\* C21 witness: the second run has ended; the first run inserted a sensor
\* node for each node group, and in the second run a group with a sensor node
\* within 0.0001 of its geometry and a different sensor node of its site and
\* source name took the id of the near one.
C21_Witness ==
    /\ igPc = "done" /\ igRun = 2
    /\ Cardinality(igFirst.nodes) = Cardinality(DOMAIN igNodeOf)
    /\ \E t \in DOMAIN igNodeOf :
          /\ NodesNear(igFirst.nodes, t) # {}
          /\ NodesNamed(igFirst.nodes, t) \ NodesNear(igFirst.nodes, t) # {}
          /\ igNodeOf[t] \in {n.id : n \in NodesNear(igFirst.nodes, t)}

\* C20: starting from tables without sensors, processquery never leaves two
\* rows of sensors with the same (sensor_systems_id, measurands_id): a run
\* creates a sensor only for a pair that has none, and one per pair.
C20_OneSensorPerSystemAndMeasurand ==
    /\ \A s, t \in igDb.sensors :
          (s.system = t.system /\ s.measurand = t.measurand) => s = t
    /\ \A s \in igDb.sensors : s.system # NoId /\ s.measurand # NoId

\* C20 witness: the second run has completed on two staged rows with
\* different datetimes that share the one sensor of their pair.
C20_Witness ==
    /\ igPc = "done"
    /\ igRun = 2
    /\ Cardinality(igDb.sensors) >= 1
    /\ \E q, r \in igStaged :
          /\ q # r
          /\ q.datetime # r.datetime
          /\ igAssigned[q] # NoId
          /\ igAssigned[q] = igAssigned[r]

(***************************************************************************)
(* load_fetch_day of ingest.py: the rows of the day (lines 510-592).       *)
(*                                                                         *)
(* Times are hours counted from the start of the day that is loaded.       *)
(***************************************************************************)
\* The number of rows staged for the day.
MaxDayRows == 2

\* SQL NULL of a timestamptz.
NoTime == 0 - 1000

\* %s::timestamptz - '1 hour'::interval and %s::timestamptz + '1 days'::interval
WindowFrom == 0 - 1
WindowTo == 24

\* The datetimes of the staged rows: the two ends of the window, the hours
\* next to them, and NULL (a line whose date.utc is null).
DayTimes == {NoTime, WindowFrom - 1, WindowFrom, WindowTo, WindowTo + 1}

DayRows ==
    [location : Locations, source_name : {None, "src"}, coords : {NoGeom, 4},
     parameter : Parameters, unit : Units, datetime : DayTimes]

DayStagedSets == SetsUpTo(DayRows, MaxDayRows) \ {{}}

\* DELETE FROM tempfetchdata WHERE datetime NOT BETWEEN lo AND hi: the row
\* goes when the condition is true; for a NULL datetime it is NULL.
OutsideWindow(r) ==
    /\ r.datetime # NoTime
    /\ ~(WindowFrom <= r.datetime /\ r.datetime <= WindowTo)

\* DELETE FROM tempfetchdata WHERE coords is null and source_name is null
\* and location is null
Unplaced(r) == r.coords = NoGeom /\ r.source_name = None /\ r.location = None

DayInit ==
    /\ dyPc = "copied"
    /\ dyStaged \in DayStagedSets
    /\ dyKept = dyStaged
    /\ dyDb = EmptyDb
    /\ dyRejects = {}
    /\ dyAssigned = [r \in dyStaged |-> NoId]
    /\ IdleBut("day")

\* The two DELETE statements that precede processquery.
DayFilter ==
    /\ dyPc = "copied"
    /\ dyPc' = "filtered"
    /\ dyKept' = {r \in dyStaged : ~OutsideWindow(r) /\ ~Unplaced(r)}
    /\ UNCHANGED <<dyStaged, dyDb, dyRejects, dyAssigned>>
    /\ UNCHANGED dayRest

\* cursor.execute(processquery) on the rows that are left, and the commit.
\* Whether measurements takes a NULL datetime is the table's definition;
\* both answers are modelled: when it does not, the INSERT of a row with a
\* sensor and no datetime raises (DayProcessRaises).
DayProcess ==
    /\ dyPc = "filtered"
    /\ LET tn == TempNodes(TempSensors(dyKept))
       IN  \E lk \in NodeLookups(dyDb.nodes, tn) :
           \E nodes1 \in NodeUpdates(dyDb.nodes, tn, lk) :
              LET res == ProcessQuery(dyDb, dyKept, 1, lk, nodes1)
              IN  /\ dyDb' = res.db
                  /\ dyRejects' = res.rejects
                  /\ dyAssigned' = [r \in dyStaged |->
                         IF r \in dyKept THEN res.assigned[r] ELSE NoId]
    /\ dyPc' = "done"
    /\ UNCHANGED <<dyStaged, dyKept>>
    /\ UNCHANGED dayRest

\* The INSERT INTO measurements raises on a NULL datetime: the exception
\* leaves the with block and the transaction is rolled back.
DayProcessRaises ==
    /\ dyPc = "filtered"
    /\ LET tn == TempNodes(TempSensors(dyKept))
       IN  \E lk \in NodeLookups(dyDb.nodes, tn) :
           \E nodes1 \in NodeUpdates(dyDb.nodes, tn, lk) :
              LET res == ProcessQuery(dyDb, dyKept, 1, lk, nodes1)
              IN  \E r \in dyKept : r.datetime = NoTime /\ res.assigned[r] # NoId
    /\ dyPc' = "error"
    /\ UNCHANGED <<dyStaged, dyKept, dyDb, dyRejects, dyAssigned>>
    /\ UNCHANGED dayRest

DayNext ==
    \/ DayFilter
    \/ DayProcess
    \/ DayProcessRaises

SpecDay == DayInit /\ [][DayNext]_vars

(***************************************************************************)
(* Claims about load_fetch_day of ingest.py                                *)
(***************************************************************************)
\* The row is of the day: its datetime lies between the day minus 1 hour and
\* the day plus 1 day, both included, and one of coords, source_name and
\* location is not NULL.
OfTheDay(r) ==
    /\ r.datetime # NoTime
    /\ WindowFrom <= r.datetime /\ r.datetime <= WindowTo
    /\ r.coords # NoGeom \/ r.source_name # None \/ r.location # None

DayMeasured(r) ==
    /\ dyAssigned[r] # NoId
    /\ [sensors_id |-> dyAssigned[r], datetime |-> r.datetime]
           \in dyDb.measurements
DayRejected(r) == \E j \in dyRejects : r \in j.rows

\* C19: processquery is given exactly the staged rows of the day; every
\* other staged row was deleted before it ran and is neither in
\* measurements nor in rejects when the load is done.
C19_OnlyRowsOfTheDayProcessed ==
    /\ dyPc \in {"filtered", "done", "error"} =>
          dyKept = {r \in dyStaged : OfTheDay(r)}
    /\ dyPc = "done" =>
          \A r \in dyStaged : ~OfTheDay(r) => ~DayMeasured(r) /\ ~DayRejected(r)

(***************************************************************************)
(* The rollups that measurements_get sums for its count                    *)
(* (routers/measurements.py, lines 130-161).                               *)
(***************************************************************************)
\* The fields the choice reads: a list field is None, the empty list or a
\* list with elements.
RollupLocations == Opt({"empty", "ints", "strs"})
RollupCountries == Opt({"empty", "US"})

\* v is None or len(v) == 0
NoneOrEmpty(v) == v = NoneV \/ v[1] = "empty"

\* where = m.where(), of the fields that the model carries here; all() of an
\* empty list is true.
RollupWhere(m) ==
    MeasurementsWhere(
        [lat |-> NoneV, lon |-> NoneV,
         location |-> IF m.location = Some("empty") THEN Some("ints")
                      ELSE m.location,
         parameter |-> m.parameter, unit |-> NoneV, isMobile |-> m.isMobile,
         country |-> m.country, city |-> NoneV],
        NoneV)

\* The joins of the summary query on groups_sensors and the sensor base table.
BaseJoins ==
    <<"LEFT JOIN groups_sensors USING (groups_id)",
      "LEFT JOIN measurements_fastapi_base b ON (groups_sensors.sensors_id=b.sensors_id)">>

\* Mutant of the test: project is not looked at.
NoSensorFilterButProject(m) ==
    /\ m.isMobile = NoneV
    /\ NoneOrEmpty(m.location)
    /\ m.coordinates = NoneV

\* if m.isMobile is None: if (m.location is None or len(m.location) == 0)
\* and m.isMobile is None and m.coordinates is None and m.project is None
NoSensorFilter(m) ==
    /\ m.isMobile = NoneV
    /\ NoneOrEmpty(m.location)
    /\ m.coordinates = NoneV
    /\ m.project = NoneV

\* Lines 130-161: rolluptype, joins and where as the summary query gets them.
RollupChoice(m) ==
    LET where0 == IF m.project # NoneV
                  THEN RollupWhere(m) \cup {" sensor_nodes_id = ANY(:locations) "}
                  ELSE RollupWhere(m)
    IN  IF ~NoSensorFilter(m)
        THEN [rolluptype |-> "node", joins |-> BaseJoins, where |-> where0]
        ELSE IF NoneOrEmpty(m.country)
             THEN [rolluptype |-> "total", joins |-> <<>>, where |-> where0]
             ELSE [rolluptype |-> "country", joins |-> <<>>,
                   where |-> {" name =ANY(:country) "}]

RollupInit ==
    /\ ruPc = "request"
    /\ ruM \in [location : RollupLocations, coordinates : Opt({"52.1,4.3"}),
                project : Opt({1}), isMobile : Opt({TRUE, FALSE}),
                country : RollupCountries, parameter : Opt({"pm25"})]
    /\ ruRes = None
    /\ IdleBut("rollup")

\* measurements_get up to the text of the summary query.
RollupChoose ==
    /\ ruPc = "request"
    /\ ruPc' = "done"
    /\ ruRes' = RollupChoice(ruM)
    /\ UNCHANGED ruM
    /\ UNCHANGED rollupRest

RollupNext == RollupChoose

SpecRollup == RollupInit /\ [][RollupNext]_vars

(***************************************************************************)
(* Claims about the choice of rollups                                      *)
(***************************************************************************)
\* The request gives the list field: it is a list with elements.
GivenList(v) == v # NoneV /\ v[1] # "empty"

\* The request gives one of location, coordinates, project and isMobile.
SensorFilterGiven ==
    \/ GivenList(ruM.location)
    \/ ruM.coordinates # NoneV
    \/ ruM.project # NoneV
    \/ ruM.isMobile # NoneV

\* C17: the summary count is taken from the rollups of type 'total' when the
\* request has none of location, coordinates, project, isMobile and country;
\* from those of type 'country', with name = ANY(:country) as the only filter
\* and no join, when country is given and none of the other four is; and
\* from those of type 'node', joined to the sensor base table, otherwise.
C17_RollupTypeByFilters ==
    ruPc = "done" =>
        IF SensorFilterGiven
        THEN /\ ruRes.rolluptype = "node"
             /\ ruRes.joins = BaseJoins
        ELSE IF GivenList(ruM.country)
             THEN /\ ruRes.rolluptype = "country"
                  /\ ruRes.where = {" name =ANY(:country) "}
                  /\ ruRes.joins = <<>>
             ELSE ruRes.rolluptype = "total"

\* C17 witness: a request with a country and a parameter, and no filter on
\* the sensors, got the rollups of type 'country'.
C17_Witness ==
    /\ ruPc = "done"
    /\ ~SensorFilterGiven
    /\ GivenList(ruM.country)
    /\ ruM.parameter # NoneV
    /\ ruRes.rolluptype = "country"

(***************************************************************************)
(* StringIteratorIO (fetch.py and ingest.py, the same class in both): the  *)
(* file-like object that copy_expert reads the lines of parse_json from.   *)
(*                                                                         *)
(* A string is a sequence of characters.  The iterator is the sequence of  *)
(* the strings it has yet to yield; next() on the empty sequence raises    *)
(* StopIteration, every time it is called.                                 *)
(***************************************************************************)
MaxStrings == 2
MaxStrLen == 2
MaxRead == 3

Chars == {"a", "b"}
Strings == UNION {[1 .. k -> Chars] : k \in 0 .. MaxStrLen}
StringSeqs == UNION {[1 .. k -> Strings] : k \in 0 .. MaxStrings}

\* The sizes a caller passes to read: None or a negative number (read
\* everything, one value stands for all of them), 0, and the positive sizes.
NoSize == 0 - 1
ReadSizes == {NoSize} \cup (0 .. MaxRead)

\* The slices s[:n] and s[k:] of a string, for n and k >= 0.
Take(s, n) == SubSeq(s, 1, IF n < Len(s) THEN n ELSE Len(s))
Drop(s, k) == SubSeq(s, k + 1, Len(s))

\* "".join(q).
RECURSIVE Concat(_)
Concat(q) == IF q = <<>> THEN <<>> ELSE Head(q) \o Concat(Tail(q))

\* Mutant of the loop of _read1: an if, which asks the iterator once.
FillBuffOnce(iter, buff) ==
    IF buff # <<>> \/ iter = <<>>
        THEN [iter |-> iter, buff |-> buff]
        ELSE [iter |-> Tail(iter), buff |-> Head(iter)]

\* The loop of _read1: while the buffer is empty the next string of the
\* iterator becomes the buffer, until StopIteration.
RECURSIVE FillBuff(_, _)
FillBuff(iter, buff) ==
    IF buff # <<>> \/ iter = <<>>
        THEN [iter |-> iter, buff |-> buff]
        ELSE FillBuff(Tail(iter), Head(iter))

\* _read1(n): the first n characters of the refilled buffer (all of it for
\* n = None), which are taken off the buffer.
Read1(iter, buff, n) ==
    LET f == FillBuff(iter, buff)
        ret == IF n = NoSize THEN f.buff ELSE Take(f.buff, n)
    IN  [ret |-> ret, iter |-> f.iter, buff |-> Drop(f.buff, Len(ret))]

\* read(n) for n None or negative: _read1() until it returns "".
RECURSIVE ReadAll(_, _, _)
ReadAll(iter, buff, line) ==
    LET m == Read1(iter, buff, NoSize)
    IN  IF m.ret = <<>>
           THEN [ret |-> line, iter |-> m.iter, buff |-> m.buff]
           ELSE ReadAll(m.iter, m.buff, line \o m.ret)

\* read(n) for n >= 0: _read1(n) while n > 0, n going down by what was read,
\* until _read1 returns "".
RECURSIVE ReadUpTo(_, _, _, _)
ReadUpTo(iter, buff, n, line) ==
    IF n > 0
       THEN LET m == Read1(iter, buff, n)
            IN  IF m.ret = <<>>
                   THEN [ret |-> line, iter |-> m.iter, buff |-> m.buff]
                   ELSE ReadUpTo(m.iter, m.buff, n - Len(m.ret),
                                 line \o m.ret)
       ELSE [ret |-> line, iter |-> iter, buff |-> buff]

\* read(n).
Read(iter, buff, n) ==
    IF n < 0 THEN ReadAll(iter, buff, <<>>) ELSE ReadUpTo(iter, buff, n, <<>>)

\* StringIteratorIO(iter).
SioInit ==
    /\ siPc = "new"
    /\ siStrings \in StringSeqs
    /\ siIter = siStrings
    /\ siBuff = <<>>
    /\ siOut = <<>>
    /\ siLast = [n |-> 0, ret |-> <<>>]
    /\ IdleBut("sio")

\* One call of read(n) by a caller that goes on reading until a read that
\* asked for something returns "".
SioRead ==
    /\ siPc \in {"new", "read"}
    /\ \E n \in ReadSizes :
          LET r == Read(siIter, siBuff, n)
          IN  /\ siIter' = r.iter
              /\ siBuff' = r.buff
              /\ siOut' = siOut \o r.ret
              /\ siLast' = [n |-> n, ret |-> r.ret]
              /\ siPc' = IF r.ret = <<>> /\ n # 0 THEN "ended" ELSE "read"
    /\ UNCHANGED siStrings
    /\ UNCHANGED sioRest

SioNext == SioRead

SpecSio == SioInit /\ [][SioNext]_vars

\* The iterator and the buffer have nothing left.
Exhausted == siIter = <<>> /\ siBuff = <<>>

\* C23: a read(n) with n > 0 returns at most n characters, and fewer than n
\* only when the strings are exhausted; at every moment the results of the
\* reads so far, followed by what the buffer and the iterator still hold,
\* are the strings of the sequence joined in order; and when a read of a
\* positive size, or of everything, returns the empty string, the results of
\* the reads up to it are the strings of the sequence joined in order.
C23_ReadsYieldTheStringsInOrder ==
    siPc \in {"read", "ended"} =>
        /\ siLast.n > 0 =>
              /\ Len(siLast.ret) <= siLast.n
              /\ Len(siLast.ret) < siLast.n => Exhausted
        /\ siOut \o siBuff \o Concat(siIter) = Concat(siStrings)
        /\ siPc = "ended" => siOut = Concat(siStrings)

\* C23 witness: reads of positive sizes, the last of which returned "", have
\* delivered two different characters of a sequence of two strings of which
\* the first is empty.
C23_Witness ==
    /\ siPc = "ended"
    /\ siLast.n > 0
    /\ Len(siStrings) = 2
    /\ siStrings[1] = <<>>
    /\ siStrings[2] = <<"a", "b">>
    /\ siOut = <<"a", "b">>

(***************************************************************************)
(* parse_json and clean_csv_value (fetch.py and ingest.py, the same code   *)
(* in both): the line of COPY input made of one record of a fetch file.    *)
(*                                                                         *)
(* A text is a sequence of pieces: a tab, a newline, or a run of other     *)
(* characters, written as the run.  A JSON value is null, a string, a      *)
(* number (given by what str and json.dumps write for it) or an object, a  *)
(* function from its keys to values.                                       *)
(***************************************************************************)
MaxFields == 2

TAB == "\t"
NL == "\n"

JNull == [kind |-> "null"]
JStr(s) == [kind |-> "str", s |-> s]
JNum(r) == [kind |-> "num", r |-> r]
JObj(o) == [kind |-> "obj", o |-> o]

\* The keys that parse_json pops with a default of None, and the keys of a
\* record: those, the three keys it looks into, and a key it does not know.
PlainKeys == {"location", "value", "unit", "parameter", "country", "city",
              "sourceName", "sourceType", "mobile"}
Keys == PlainKeys \cup {"date", "averagingPeriod", "coordinates", "attribution"}

\* The order in which json.dumps writes the keys that parse_json can leave in
\* the record, and those of a coordinates object.
DumpOrder == <<"coordinates", "attribution", "longitude", "latitude">>

PlainValues == {JNull, JStr(<<"x">>), JStr(<<"x", TAB, "y", NL>>), JNum("7")}
ObjectsOver(K) ==
    {JObj(o) : o \in UNION {[D -> PlainValues] : D \in SUBSET K}}
ValuesOf(k) ==
    CASE k = "date" -> {JNull} \cup ObjectsOver({"utc"})
      [] k = "averagingPeriod" -> {JNull} \cup ObjectsOver({"unit", "value"})
      [] k = "coordinates" -> {JNull} \cup ObjectsOver({"longitude", "latitude"})
      [] OTHER -> PlainValues

\* The records: up to MaxFields keys, each with one of its values.
Records ==
    UNION {{j \in [D -> UNION {ValuesOf(k) : k \in D}] :
                \A k \in D : j[k] \in ValuesOf(k)}
              : D \in {E \in SUBSET Keys : Cardinality(E) <= MaxFields}}

\* d.pop(key, None) and d.get: the value under the key, None without one;
\* the None of Python is what json.loads makes of null.
Pop(d, key) == IF key \in DOMAIN d THEN d[key] ELSE JNull
Without(d, keys) == [k \in DOMAIN d \ keys |-> d[k]]

\* str(value) of a string, a number or None.
Str(v) ==
    CASE v.kind = "str" -> v.s
      [] v.kind = "num" -> <<v.r>>
      [] v.kind = "null" -> <<"None">>

\* s.replace(old, new) for a one-character old.
RECURSIVE Replace(_, _, _)
Replace(s, old, new) ==
    IF s = <<>> THEN <<>>
    ELSE (IF Head(s) = old THEN <<new>> ELSE <<Head(s)>>)
         \o Replace(Tail(s), old, new)

\* clean_csv_value(value) of None or of a value that str leaves as the text
\* t: r"\N", or the text with backslash-n for a newline and a blank for a tab.
clean_csv_value(v) ==
    IF v.kind = "null" THEN <<"\\N">>
    ELSE Replace(Replace(v.t, NL, "\\n"), TAB, " ")

RECURSIVE Join(_, _)
Join(sep, q) ==
    IF q = <<>> THEN <<>>
    ELSE IF Len(q) = 1 THEN Head(q)
    ELSE Head(q) \o sep \o Join(sep, Tail(q))

\* json.dumps of a string: quoted, a tab and a newline written as escapes.
DumpsStr(t) ==
    <<"\"">> \o Replace(Replace(t, NL, "\\n"), TAB, "\\t") \o <<"\"">>

\* json.dumps of a value: an object is written as its pairs between braces,
\* in the order of its keys (here the order of DumpOrder).
RECURSIVE Dumps(_)
DumpsPair(o, k) == DumpsStr(<<k>>) \o <<": ">> \o Dumps(o[k])
Dumps(v) ==
    CASE v.kind = "null" -> <<"null">>
      [] v.kind = "str" -> DumpsStr(v.s)
      [] v.kind = "num" -> <<v.r>>
      [] v.kind = "obj" ->
            LET keys == SelectSeq(DumpOrder, LAMBDA k : k \in DOMAIN v.o)
            IN  <<"{">>
                \o Join(<<", ">>, [i \in 1 .. Len(keys) |-> DumpsPair(v.o, keys[i])])
                \o <<"}">>

\* The exception of a subscript, a pop or an "in" on a value that is not an
\* object, and of a subscript with a key the object does not have.
NotSubscriptable == "TypeError"
NoSuchKey == "KeyError"

\* The value of a cell of the row: None, or what str makes of it.
Cell(v) == IF v.kind = "null" THEN JNull ELSE [kind |-> "text", t |-> Str(v)]
TextCell(t) == [kind |-> "text", t |-> t]

\* parse_json(j): the exception it raises or the line it returns.
parse_json(j) ==
    IF "date" \notin DOMAIN j THEN [kind |-> "raise", exc |-> NoSuchKey]
    ELSE IF j["date"].kind # "obj"
        THEN [kind |-> "raise", exc |-> NotSubscriptable]
    ELSE IF "utc" \notin DOMAIN j["date"].o
        THEN [kind |-> "raise", exc |-> NoSuchKey]
    ELSE IF "coordinates" \in DOMAIN j /\ j["coordinates"].kind # "obj"
        THEN [kind |-> "raise", exc |-> NotSubscriptable]
    ELSE
    LET date == j["date"].o["utc"]
        avpd == Pop(j, "averagingPeriod")
        avpd_unit == IF avpd.kind = "null" THEN JNull ELSE Pop(avpd.o, "unit")
        avpd_value == IF avpd.kind = "null" THEN JNull ELSE Pop(avpd.o, "value")
        hasCoords == /\ "coordinates" \in DOMAIN j
                     /\ "longitude" \in DOMAIN j["coordinates"].o
                     /\ "latitude" \in DOMAIN j["coordinates"].o
        c == j["coordinates"].o
        coords == IF hasCoords
                     THEN TextCell(<<"SRID=4326;POINT(">>
                                   \o Str(c["longitude"]) \o <<" ">>
                                   \o Str(c["latitude"]) \o <<")">>)
                     ELSE JNull
        left == Without(j, PlainKeys \cup {"date", "averagingPeriod"}
                           \cup (IF hasCoords THEN {"coordinates"} ELSE {}))
        data == TextCell(Dumps(JObj(left)))
        row == <<Cell(Pop(j, "location")), Cell(Pop(j, "value")),
                 Cell(Pop(j, "unit")), Cell(Pop(j, "parameter")),
                 Cell(Pop(j, "country")), Cell(Pop(j, "city")),
                 data, Cell(Pop(j, "sourceName")), Cell(date), coords,
                 Cell(Pop(j, "sourceType")), Cell(Pop(j, "mobile")),
                 Cell(avpd_unit), Cell(avpd_value)>>
    IN  [kind |-> "line",
         line |-> Join(<<TAB>>, [i \in 1 .. Len(row) |-> clean_csv_value(row[i])])
                  \o <<NL>>]

\* A record read from a line of a fetch file.
ParseInit ==
    /\ pjPc = "call"
    /\ pjRecord \in Records
    /\ pjOut = None
    /\ IdleBut("parse")

\* parse_json(j).
ParseCall ==
    /\ pjPc = "call"
    /\ pjOut' = parse_json(pjRecord)
    /\ pjPc' = "done"
    /\ UNCHANGED pjRecord
    /\ UNCHANGED parseRest

ParseNext == ParseCall

SpecParse == ParseInit /\ [][ParseNext]_vars

\* The columns of the COPY statement and, for the columns that hold a field
\* of the record, the key of that field.
CopyColumns ==
    <<"location", "value", "unit", "parameter", "country", "city", "data",
      "source_name", "datetime", "coords", "source_type", "mobile",
      "avpd_unit", "avpd_value">>
KeyOfColumn ==
    [location |-> "location", value |-> "value", unit |-> "unit",
     parameter |-> "parameter", country |-> "country", city |-> "city",
     source_name |-> "sourceName", datetime |-> "date",
     coords |-> "coordinates", source_type |-> "sourceType",
     mobile |-> "mobile", avpd_unit |-> "averagingPeriod",
     avpd_value |-> "averagingPeriod"]

\* How often a piece occurs in a text, and the fields of a line: the texts
\* between its tabs, without the newline at its end.
RECURSIVE Count(_, _)
Count(s, x) ==
    IF s = <<>> THEN 0
    ELSE (IF Head(s) = x THEN 1 ELSE 0) + Count(Tail(s), x)
RECURSIVE Split(_, _)
Split(s, cur) ==
    IF s = <<>> THEN <<cur>>
    ELSE IF Head(s) = TAB THEN <<cur>> \o Split(Tail(s), <<>>)
    ELSE Split(Tail(s), Append(cur, Head(s)))
FieldsOf(line) == Split(SubSeq(line, 1, Len(line) - 1), <<>>)

\* C24, as stated: for every record parse_json returns a line; the line has
\* 13 tabs and one newline, which is its last character, so 14 fields none
\* of which holds a raw tab or newline; the field of a column whose key the
\* record does not have is \N; and the columns are in the order of the COPY
\* statement: a field of the record that is there and is a string or a
\* number stands, cleaned, in the column of its key.
C24_EveryRecordGivesOneLine ==
    pjPc = "done" =>
        /\ pjOut.kind = "line"
        /\ Len(pjOut.line) > 0
        /\ pjOut.line[Len(pjOut.line)] = NL
        /\ Count(pjOut.line, NL) = 1
        /\ Count(pjOut.line, TAB) = 13
        /\ Len(FieldsOf(pjOut.line)) = Len(CopyColumns)
        /\ \A i \in 1 .. Len(CopyColumns) :
              LET col == CopyColumns[i]
                  field == FieldsOf(pjOut.line)[i]
              IN  col # "data" =>
                    LET key == KeyOfColumn[col]
                    IN  /\ key \notin DOMAIN pjRecord => field = <<"\\N">>
                        /\ (key \in PlainKeys /\ key \in DOMAIN pjRecord) =>
                              field = clean_csv_value(Cell(pjRecord[key]))


(***************************************************************************)
(* The whole program: one of its parts runs.                               *)
(***************************************************************************)
Init ==
    \/ PagingInit
    \/ WhereInit
    \/ MeasInit
    \/ CacheInit
    \/ LoadInit
    \/ IngestInit
    \/ RollupInit
    \/ DayInit
    \/ SioInit
    \/ ParseInit

Next ==
    \/ PagingNext
    \/ WhereNext
    \/ MeasNext
    \/ CacheNext
    \/ LoadNext
    \/ IngestNext
    \/ RollupNext
    \/ DayNext
    \/ SioNext
    \/ ParseNext

Spec == Init /\ [][Next]_vars

=============================================================================
